---------------------------- MODULE Spec2Model ----------------------------
(***************************************************************************)
(* Weyl (KAK) decomposition of two-qubit unitaries and the synthesis of    *)
(* the decomposition into a gate sequence                                  *)
(* (crates/accelerate/src/two_qubit_decompose.rs).                         *)
(*                                                                         *)
(* Numbers.  Complex64 values are modelled exactly in the ring             *)
(* Z[zeta]/2^k, zeta = exp(i*pi/8): a complex number is the tuple          *)
(* <<k, c0, ..., c7>> standing for (c0 + c1 zeta + ... + c7 zeta^7)/2^k,   *)
(* kept in lowest terms so that equal numbers are equal tuples.  Angles    *)
(* (f64 radians) are integers counting units of pi/PI.  Quantities that    *)
(* leave the ring (fidelities, the closest partial swap) are fixed-point   *)
(* numbers with FS units per 1.0.                                          *)
(***************************************************************************)
EXTENDS Integers, Sequences, FiniteSets, TLC

(***************************************************************************)
(* Angle constants (two_qubit_decompose.rs:28, 51-54)                      *)
(***************************************************************************)
PI == 12288
PI2 == PI \div 2
PI4 == PI \div 4
PI32 == 3 * PI2
TWO_PI == 2 * PI
\* the argument of zeta in angle units
ZU == PI \div 8
\* fixed-point units per 1.0
FS == 10000

Abs(n) == IF n < 0 THEN -n ELSE n
Sign(n) == IF n < 0 THEN -1 ELSE IF n > 0 THEN 1 ELSE 0
\* integer division rounding to nearest (ties away from zero)
RDiv(n, m) == Sign(n) * ((2 * Abs(n) + m) \div (2 * m))
\* f64::rem_euclid for a positive modulus
rem_euclid(n, m) == n % m
Min(x, y) == IF x <= y THEN x ELSE y

(***************************************************************************)
(* Complex arithmetic (num_complex::Complex64 / faer c64)                  *)
(***************************************************************************)
RECURSIVE CNorm(_)
CNorm(x) ==
    IF x[1] > 0 /\ \A i \in 2..9 : x[i] % 2 = 0
    THEN CNorm(<<x[1] - 1, x[2] \div 2, x[3] \div 2, x[4] \div 2, x[5] \div 2,
                 x[6] \div 2, x[7] \div 2, x[8] \div 2, x[9] \div 2>>)
    ELSE x

C0 == <<0, 0, 0, 0, 0, 0, 0, 0, 0>>
C1 == <<0, 1, 0, 0, 0, 0, 0, 0, 0>>
C1IM == <<0, 0, 0, 0, 0, 1, 0, 0, 0>>
C1_IM == C1IM

CNeg(x) == <<x[1], -x[2], -x[3], -x[4], -x[5], -x[6], -x[7], -x[8], -x[9]>>

RECURSIVE Pow2(_)
Pow2(n) == IF n = 0 THEN 1 ELSE 2 * Pow2(n - 1)

CScaleUp(x, n) ==
    IF n = 0 THEN x
    ELSE [i \in 1..9 |-> IF i = 1 THEN x[1] + n ELSE Pow2(n) * x[i]]

\* the sum of two numbers with the same exponent of two
CAddAligned(a, b) ==
    <<a[1], a[2] + b[2], a[3] + b[3], a[4] + b[4], a[5] + b[5],
      a[6] + b[6], a[7] + b[7], a[8] + b[8], a[9] + b[9]>>
CAdd(x, y) ==
    IF x = C0 THEN y
    ELSE IF y = C0 THEN x
    ELSE IF x[1] >= y[1] THEN CNorm(CAddAligned(x, CScaleUp(y, x[1] - y[1])))
    ELSE CNorm(CAddAligned(CScaleUp(x, y[1] - x[1]), y))

CSub(x, y) == CAdd(x, CNeg(y))

CMul(x, y) ==
    IF x = C0 \/ y = C0 THEN C0
    ELSE IF x = C1 THEN y
    ELSE IF y = C1 THEN x
    ELSE CNorm(<<x[1] + y[1],
        x[2]*y[2] - x[3]*y[9] - x[4]*y[8] - x[5]*y[7] - x[6]*y[6] - x[7]*y[5] - x[8]*y[4] - x[9]*y[3],
        x[2]*y[3] + x[3]*y[2] - x[4]*y[9] - x[5]*y[8] - x[6]*y[7] - x[7]*y[6] - x[8]*y[5] - x[9]*y[4],
        x[2]*y[4] + x[3]*y[3] + x[4]*y[2] - x[5]*y[9] - x[6]*y[8] - x[7]*y[7] - x[8]*y[6] - x[9]*y[5],
        x[2]*y[5] + x[3]*y[4] + x[4]*y[3] + x[5]*y[2] - x[6]*y[9] - x[7]*y[8] - x[8]*y[7] - x[9]*y[6],
        x[2]*y[6] + x[3]*y[5] + x[4]*y[4] + x[5]*y[3] + x[6]*y[2] - x[7]*y[9] - x[8]*y[8] - x[9]*y[7],
        x[2]*y[7] + x[3]*y[6] + x[4]*y[5] + x[5]*y[4] + x[6]*y[3] + x[7]*y[2] - x[8]*y[9] - x[9]*y[8],
        x[2]*y[8] + x[3]*y[7] + x[4]*y[6] + x[5]*y[5] + x[6]*y[4] + x[7]*y[3] + x[8]*y[2] - x[9]*y[9],
        x[2]*y[9] + x[3]*y[8] + x[4]*y[7] + x[5]*y[6] + x[6]*y[5] + x[7]*y[4] + x[8]*y[3] + x[9]*y[2]>>)

CConj(x) == <<x[1], x[2], -x[9], -x[8], -x[7], -x[6], -x[5], -x[4], -x[3]>>

CHalf(x) == IF x = C0 THEN C0 ELSE CNorm(<<x[1] + 1, x[2], x[3], x[4], x[5], x[6], x[7], x[8], x[9]>>)

CInt(n) == <<0, n, 0, 0, 0, 0, 0, 0, 0>>

\* zeta^j for any integer j
Zeta(j) ==
    LET m == j % 16
        s == IF m < 8 THEN 1 ELSE -1
        i == m % 8
    IN <<0, IF i = 0 THEN s ELSE 0, IF i = 1 THEN s ELSE 0, IF i = 2 THEN s ELSE 0,
         IF i = 3 THEN s ELSE 0, IF i = 4 THEN s ELSE 0, IF i = 5 THEN s ELSE 0,
         IF i = 6 THEN s ELSE 0, IF i = 7 THEN s ELSE 0>>

\* real and imaginary parts, as complex numbers and as fixed-point numbers
CRe(x) == CHalf(CAdd(x, CConj(x)))
CIm(x) == CMul(CNeg(C1IM), CHalf(CSub(x, CConj(x))))
IsReal(x) == x = CConj(x)
ReFix(x) ==
    (10000 * x[2] + 9239 * x[3] + 7071 * x[4] + 3827 * x[5]
        - 3827 * x[7] - 7071 * x[8] - 9239 * x[9]) \div Pow2(x[1])
ImFix(x) ==
    (3827 * x[3] + 7071 * x[4] + 9239 * x[5] + 10000 * x[6]
        + 9239 * x[7] + 7071 * x[8] + 3827 * x[9]) \div Pow2(x[1])
Abs2(x) == CMul(x, CConj(x))
IsPos(x) == IsReal(x) /\ ReFix(x) > 0

\* Complex::arg, in angle units, range (-pi, pi]; arg(0) = 0
ArgIdx(x) == IF x = C0 THEN 0 ELSE CHOOSE j \in -7..8 : IsPos(CMul(x, Zeta(-j)))
Arg(x) == ArgIdx(x) * ZU
\* Complex::exp(i*theta) for an angle in units (the angle is a multiple of ZU)
ExpI(theta) == Zeta(CHOOSE j \in {theta \div ZU} : j * ZU = theta)
\* cos and sin of an angle that is a multiple of ZU, as ring elements
CosR(theta) == CRe(ExpI(theta))
SinR(theta) == CIm(ExpI(theta))
\* theta / 2. for an angle in units (the angle is even)
HalfAngle(theta) == CHOOSE h \in {theta \div 2} : 2 * h = theta

Sqrt2 == <<0, 0, 0, 1, 0, 0, 0, -1, 0>>
\* positive reals r of the ring paired with 1/r
PosReals ==
    { <<C1, C1>>, <<Sqrt2, CHalf(Sqrt2)>>, <<CHalf(Sqrt2), Sqrt2>>,
      <<CInt(2), CHalf(C1)>>, <<CHalf(C1), CInt(2)>>,
      <<CHalf(CHalf(Sqrt2)), CMul(CInt(2), Sqrt2)>> }
\* Complex::sqrt (principal branch) and its reciprocal
CSqrtPair(x) ==
    LET Root(j, s) == <<CMul(s[1], Zeta(j \div 2)), CMul(s[2], Zeta(-(j \div 2)))>>
        Modulus(j) == CHOOSE q \in PosReals : CMul(q[1], q[1]) = CMul(x, Zeta(-j))
        At(j) == Root(j, Modulus(j))
    IN At(ArgIdx(x))

(***************************************************************************)
(* Matrices (ndarray::Array2 / faer::Mat): tuples of rows                  *)
(***************************************************************************)
Dot2(A, B) ==
    [i \in 1..2 |-> [j \in 1..2 |-> CAdd(CMul(A[i][1], B[1][j]), CMul(A[i][2], B[2][j]))]]

Dot4Entry(A, B, i, j) ==
    CAdd(CAdd(CMul(A[i][1], B[1][j]), CMul(A[i][2], B[2][j])),
         CAdd(CMul(A[i][3], B[3][j]), CMul(A[i][4], B[4][j])))
Dot4(A, B) == [i \in 1..4 |-> [j \in 1..4 |-> Dot4Entry(A, B, i, j)]]

Transpose2(A) == [i \in 1..2 |-> [j \in 1..2 |-> A[j][i]]]
Transpose4(A) == [i \in 1..4 |-> [j \in 1..4 |-> A[j][i]]]
Map2(Op(_), A) == [i \in 1..2 |-> [j \in 1..2 |-> Op(A[i][j])]]
Map4(Op(_), A) == [i \in 1..4 |-> [j \in 1..4 |-> Op(A[i][j])]]
Scale2(s, A) == LET f(x) == CMul(s, x) IN Map2(f, A)
Scale4(s, A) == LET f(x) == CMul(s, x) IN Map4(f, A)
Adjoint2(A) == Map2(CConj, Transpose2(A))
Adjoint4(A) == Map4(CConj, Transpose4(A))
Eye2 == << <<C1, C0>>, <<C0, C1>> >>
Eye4 == << <<C1, C0, C0, C0>>, <<C0, C1, C0, C0>>, <<C0, C0, C1, C0>>, <<C0, C0, C0, C1>> >>
Diag4(d) ==
    << <<d[1], C0, C0, C0>>, <<C0, d[2], C0, C0>>, <<C0, C0, d[3], C0>>, <<C0, C0, C0, d[4]>> >>
DiagOf4(A) == <<A[1][1], A[2][2], A[3][3], A[4][4]>>
\* ndarray::linalg::kron of two 2x2 matrices
Kron(A, B) ==
    [i \in 1..4 |-> [j \in 1..4 |->
        CMul(A[((i - 1) \div 2) + 1][((j - 1) \div 2) + 1],
             B[((i - 1) % 2) + 1][((j - 1) % 2) + 1])]]
\* euler_one_qubit_decomposer::det_one_qubit
det_one_qubit(A) == CSub(CMul(A[1][1], A[2][2]), CMul(A[1][2], A[2][1]))
\* the cofactor expansion of a 3x3 determinant along its first row
Det3(a, b, c) ==
    LET n(k) == (k % 3) + 1
        Sum(t) == CAdd(CAdd(t[1], t[2]), t[3])
    IN Sum([k \in 1..3 |->
              CMul(a[k], CSub(CMul(b[n(k)], c[n(n(k))]), CMul(b[n(n(k))], c[n(k)])))])
Drop(r, j) == IF j = 1 THEN <<r[2], r[3], r[4]>> ELSE IF j = 2 THEN <<r[1], r[3], r[4]>>
              ELSE IF j = 3 THEN <<r[1], r[2], r[4]>> ELSE <<r[1], r[2], r[3]>>
\* faer Mat::determinant of a 4x4 matrix
Determinant(A) ==
    LET Sum(t) == CAdd(CSub(t[1], t[2]), CSub(t[3], t[4]))
    IN Sum([j \in 1..4 |-> CMul(A[1][j], Det3(Drop(A[2], j), Drop(A[3], j), Drop(A[4], j)))])
Trace4(A) == CAdd(CAdd(A[1][1], A[2][2]), CAdd(A[3][3], A[4][4]))


(***************************************************************************)
(* Fixed-point f64 functions: arguments are angles in units, results have  *)
(* FS units per 1.0                                                        *)
(***************************************************************************)
\* radians of an angle, fixed point
Rad(n) == RDiv(n * 31416, PI)
FMul(x, y) == RDiv(x * y, FS)
\* Taylor polynomials on [0, pi/4]
TaylorCos(x) ==
    LET x2 == FMul(x, x)
        x4 == FMul(x2, x2)
        x6 == FMul(x4, x2)
    IN FS - RDiv(x2, 2) + RDiv(x4, 24) - RDiv(x6, 720)
TaylorSin(x) ==
    LET x2 == FMul(x, x)
        x3 == FMul(x2, x)
        x5 == FMul(x3, x2)
        x7 == FMul(x5, x2)
    IN x - RDiv(x3, 6) + RDiv(x5, 120) - RDiv(x7, 5040)
CosQ(m) == IF m <= PI4 THEN TaylorCos(Rad(m)) ELSE TaylorSin(Rad(PI2 - m))
\* f64::cos
Cos(n) ==
    LET m == n % TWO_PI
        h == IF m > PI THEN TWO_PI - m ELSE m
    IN IF h > PI2 THEN -CosQ(PI - h) ELSE CosQ(h)
\* f64::sin
Sin(n) == Cos(n - PI2)

\* Complex::arg of re + i*im (fixed point), in angle units, by bisection
RECURSIVE ArgBisect(_, _, _, _)
ArgBisect(re, im, lo, hi) ==
    IF hi - lo <= 1
    THEN (IF Abs(Sin(lo) * re - Cos(lo) * im) <= Abs(Sin(hi) * re - Cos(hi) * im) THEN lo ELSE hi)
    ELSE LET mid == (lo + hi) \div 2
         IN IF Sin(mid) * re - Cos(mid) * im < 0
            THEN ArgBisect(re, im, mid, hi)
            ELSE ArgBisect(re, im, lo, mid)
ArgFix(re, im) ==
    IF im = 0 THEN (IF re >= 0 THEN 0 ELSE PI)
    ELSE IF im > 0 THEN ArgBisect(re, im, 0, PI)
    ELSE -ArgBisect(re, -im, 0, PI)

(***************************************************************************)
(* Fidelities: <<hi, lo>> stands for hi/FS + lo * 1e-13, 0 <= lo < FLo     *)
(***************************************************************************)
FLo == 1000000000
FLeq(x, y) == x[1] < y[1] \/ (x[1] = y[1] /\ x[2] <= y[2])
FLess(x, y) == x[1] < y[1] \/ (x[1] = y[1] /\ x[2] < y[2])
\* x + 1.0e-13
FAddEps(x) == IF x[2] + 1 = FLo THEN <<x[1] + 1, 0>> ELSE <<x[1], x[2] + 1>>
NoFidelity == <<-1, 0>>
\* const DEFAULT_FIDELITY: f64 = 1.0 - 1.0e-9
DEFAULT_FIDELITY == <<FS - 1, FLo - 10000>>

\* 4. * Complex64::new(da.cos() * db.cos() * dc.cos(), da.sin() * db.sin() * dc.sin()) / 4
TraceOver4(da, db, dc) ==
    LET Prod(cos, sin) == <<FMul(FMul(cos[1], cos[2]), cos[3]), FMul(FMul(sin[1], sin[2]), sin[3])>>
        d == <<da, db, dc>>
    IN Prod([k \in 1..3 |-> Cos(d[k])], [k \in 1..3 |-> Sin(d[k])])
\* trace_to_fid of 4 * (t[1] + i t[2])
trace_to_fid(t) == <<RDiv(4 * FS + 16 * RDiv(t[1] * t[1] + t[2] * t[2], FS), 20), 0>>

\* closest_partial_swap, angles in units
closest_partial_swap(a, b, c) ==
    LET m == RDiv(a + b + c, 3)
        am == Rad(a) - Rad(m)
        bm == Rad(b) - Rad(m)
        cm == Rad(c) - Rad(m)
        ab == Rad(a) - Rad(b)
        bc == Rad(b) - Rad(c)
        ca == Rad(c) - Rad(a)
        corr == RDiv(FMul(FMul(FMul(am, bm), cm),
                          6 * FS + FMul(ab, ab) + FMul(FMul(bc, bc), FMul(ca, ca))), 18)
    IN m + RDiv(corr * PI, 31416)

(***************************************************************************)
(* Fixed matrices and rotations                                            *)
(***************************************************************************)
ipz == << <<C1_IM, C0>>, <<C0, CNeg(C1_IM)>> >>
ipy == << <<C0, C1>>, <<CNeg(C1), C0>> >>
ipx == << <<C0, C1_IM>>, <<C1_IM, C0>> >>

\* gate_matrix.rs, lines 50-67: the standard rotations
rx_gate(theta) ==
    LET Mat(cos, isin) == << <<cos, isin>>, <<isin, cos>> >>
        half_theta == HalfAngle(theta)
    IN Mat(CosR(half_theta), CMul(C1_IM, CNeg(SinR(half_theta))))
ry_gate(theta) ==
    LET Mat(cos, sin) == << <<cos, CNeg(sin)>>, <<sin, cos>> >>
        half_theta == HalfAngle(theta)
    IN Mat(CosR(half_theta), SinR(half_theta))
rz_gate(theta) ==
    LET Mat(ilam2) == << <<ExpI(-ilam2), C0>>, <<C0, ExpI(ilam2)>> >>
    IN Mat(HalfAngle(theta))

\* two_qubit_decompose.rs, lines 238-258: the local helpers
rx_matrix(theta) ==
    LET Mat(cos, isin) == << <<cos, isin>>, <<isin, cos>> >>
        half_theta == HalfAngle(theta)
    IN Mat(CosR(half_theta), CMul(C1_IM, CNeg(SinR(half_theta))))
\* lines 245-250: isin is Complex64::new(0., half_theta.sin())
ry_matrix(theta) ==
    LET Mat(cos, isin) == << <<cos, CNeg(isin)>>, <<isin, cos>> >>
        half_theta == HalfAngle(theta)
    IN Mat(CosR(half_theta), CMul(C1_IM, SinR(half_theta)))
rz_matrix(theta) ==
    LET Mat(ilam2exp) == << <<CNeg(ilam2exp), C0>>, <<C0, ilam2exp>> >>
    IN Mat(ExpI(HalfAngle(theta)))

_b_nonnormalized ==
    << <<C1, C1IM, C0, C0>>, <<C0, C0, C1IM, C1>>, <<C0, C0, C1IM, CNeg(C1)>>,
       <<C1, CNeg(C1IM), C0, C0>> >>
_b_nonnormalized_dagger == Scale4(CHalf(C1), Adjoint4(_b_nonnormalized))
transform_from_magic_basis(unitary, reverse) ==
    IF reverse
    THEN Dot4(Dot4(_b_nonnormalized_dagger, unitary), _b_nonnormalized)
    ELSE Dot4(Dot4(_b_nonnormalized, unitary), _b_nonnormalized_dagger)

\* the right-factor candidate taken from the upper left block whatever its determinant
right_candidate_upper(unitary) ==
    << <<unitary[1][1], unitary[1][2]>>, <<unitary[2][1], unitary[2][2]>> >>
\* lines 104-109: the candidate for the right factor, the lower left block when
\* the determinant of the upper left one is below 0.1 in magnitude
right_candidate(unitary) ==
    LET Block(i) == << <<unitary[i][1], unitary[i][2]>>, <<unitary[i + 1][1], unitary[i + 1][2]>> >>
        Pick(r0) == IF ReFix(Abs2(det_one_qubit(r0))) < 100 THEN Block(3) ELSE r0
    IN Pick(Block(1))
\* lines 111-117: the rows and columns 0 and 2 of unitary * kron(eye, adjoint(r))
left_candidate(unitary, r) ==
    LET Left(temp) == << <<temp[1][1], temp[1][3]>>, <<temp[3][1], temp[3][3]>> >>
    IN Left(Dot4(unitary, Kron(Eye2, Adjoint2(r))))
\* returns <<l, r, phase>>
decompose_two_qubit_product_gate(unitary) ==
    LET \* lines 110 and 118: the matrix over the square root of its determinant
        Normal(m) == Scale2(CSqrtPair(det_one_qubit(m))[2], m)
        Result(l0, r) == <<Normal(l0), r, HalfAngle(Arg(det_one_qubit(l0)))>>
        WithR(r) == Result(left_candidate(unitary, r), r)
    IN WithR(Normal(right_candidate(unitary)))

(***************************************************************************)
(* Two-qubit rotations (gates.rs) and the canonical interaction            *)
(***************************************************************************)
rxx_matrix(theta) ==
    LET Mat(cos, misin) ==
          << <<cos, C0, C0, misin>>, <<C0, cos, misin, C0>>,
             <<C0, misin, cos, C0>>, <<misin, C0, C0, cos>> >>
        theta2 == HalfAngle(theta)
    IN Mat(CosR(theta2), CNeg(CMul(C1_IM, SinR(theta2))))
ryy_matrix(theta) ==
    LET Mat(cos, isin) ==
          << <<cos, C0, C0, isin>>, <<C0, cos, CNeg(isin), C0>>,
             <<C0, CNeg(isin), cos, C0>>, <<isin, C0, C0, cos>> >>
        theta2 == HalfAngle(theta)
    IN Mat(CosR(theta2), CMul(C1_IM, SinR(theta2)))
rzz_matrix(theta) ==
    LET theta2 == HalfAngle(theta)
    IN Diag4(<<ExpI(-theta2), ExpI(theta2), ExpI(theta2), ExpI(-theta2)>>)
\* exp(i (a XX + b YY + c ZZ)): the block that rxx(-2a), ryy(-2b), rzz(-2c) implement
CanonicalMatrix(a, b, c) ==
    Dot4(Dot4(rxx_matrix(-2 * a), ryy_matrix(-2 * b)), rzz_matrix(-2 * c))
\* the swap permutation matrix
SwapMatrix == << <<C1, C0, C0, C0>>, <<C0, C0, C1, C0>>, <<C0, C1, C0, C0>>, <<C0, C0, C0, C1>> >>

(***************************************************************************)
(* Single-qubit Euler decomposer (crate::euler_one_qubit_decomposer)       *)
(***************************************************************************)
\* params_zyz_inner: <<theta, phi, lam, phase>>
params_zyz(mat) ==
    LET Angles(theta, ang1, ang2, det_arg) ==
          <<theta, ang1 + ang2 - det_arg, ang1 - ang2, HalfAngle(det_arg)>>
    IN Angles(2 * (CHOOSE t \in {0, ZU, 2 * ZU, 3 * ZU, 4 * ZU} :
                     Abs2(mat[1][1]) = CMul(CosR(t), CosR(t))),
              Arg(mat[2][2]), Arg(mat[2][1]), Arg(det_one_qubit(mat)))
\* mod_2pi(angle, 0.): wraps into [-pi, pi)
mod_2pi(angle) == ((angle + PI) % TWO_PI) - PI
\* params_xyx_inner
params_xyx(mat) ==
    LET mat_zyz ==
          << <<CHalf(CAdd(CAdd(mat[1][1], mat[1][2]), CAdd(mat[2][1], mat[2][2]))),
               CHalf(CAdd(CSub(mat[1][1], mat[1][2]), CSub(mat[2][1], mat[2][2])))>>,
             <<CHalf(CSub(CAdd(mat[1][1], mat[1][2]), CAdd(mat[2][1], mat[2][2]))),
               CHalf(CSub(CSub(mat[1][1], mat[1][2]), CSub(mat[2][1], mat[2][2])))>> >>
        Shifted(theta, phi, lam, phase, new_phi, new_lam) ==
          <<theta, new_phi, new_lam, phase + HalfAngle(new_phi + new_lam - phi - lam)>>
        Angles(z) == Shifted(z[1], z[2], z[3], z[4], mod_2pi(z[2] + PI), mod_2pi(z[3] + PI))
    IN Angles(params_zyz(mat_zyz))
angles_from_unitary(mat, basis) == IF basis = "XYX" THEN params_xyx(mat) ELSE params_zyz(mat)


\* DEFAULT_ATOL (1e-12) is below one angle unit
DEFAULT_ATOL == 0
NoAtol == -1
\* unitary_to_gate_sequence_inner for the bases "ZYZ" and "XYX":
\* [gates |-> sequence of <<name, params>>, global_phase |-> angle]
unitary_to_gate_sequence_inner(mat, basis, simplify, atol) ==
    LET tol == IF atol = NoAtol THEN DEFAULT_ATOL ELSE atol
        k_gate == IF basis = "XYX" THEN "rx" ELSE "rz"
        Gate(name, angle) ==
          IF ~simplify \/ Abs(mod_2pi(angle)) > tol THEN << <<name, <<angle>> >> >> ELSE << >>
        Sequence(e) ==
          [gates |-> Gate(k_gate, e[3]) \o Gate("ry", e[1]) \o Gate(k_gate, e[2]),
           global_phase |-> e[4]]
    IN Sequence(angles_from_unitary(mat, basis))

(***************************************************************************)
(* utils::arg_sort of three values: stable ascending argsort, 1-based      *)
(***************************************************************************)
Perms3 == { <<1, 2, 3>>, <<1, 3, 2>>, <<2, 1, 3>>, <<2, 3, 1>>, <<3, 1, 2>>, <<3, 2, 1>> }
Before(v, i, j) == v[i] < v[j] \/ (v[i] = v[j] /\ i < j)
arg_sort(v) == CHOOSE o \in Perms3 : Before(v, o[1], o[2]) /\ Before(v, o[2], o[3])

(***************************************************************************)
(* The real symmetric eigensolver (faer selfadjoint_eigendecomposition):   *)
(* any orthogonal matrix of eigenvectors, eigenvalues in nondecreasing     *)
(* order.  The results are drawn from a family of candidates: the signed   *)
(* permutation matrices (the solver is exact on the diagonal inputs), and, *)
(* in the universe "diag", also the bases in which the first two           *)
(* eigenvectors are rotated by 45 degrees inside a degenerate eigenspace.  *)
(***************************************************************************)
Perms4 == { q \in [1..4 -> 1..4] : \A i, j \in 1..4 : i # j => q[i] # q[j] }
PermRow(q, r) ==
    <<IF q[1] = r THEN C1 ELSE C0, IF q[2] = r THEN C1 ELSE C0,
      IF q[3] = r THEN C1 ELSE C0, IF q[4] = r THEN C1 ELSE C0>>
PermMatrix(q) == <<PermRow(q, 1), PermRow(q, 2), PermRow(q, 3), PermRow(q, 4)>>
InvSqrt2 == CHalf(Sqrt2)
\* the rotation of the first two columns by 45 degrees
Givens ==
    << <<InvSqrt2, CNeg(InvSqrt2), C0, C0>>, <<InvSqrt2, InvSqrt2, C0, C0>>,
       <<C0, C0, C1, C0>>, <<C0, C0, C0, C1>> >>
NegFirst == Diag4(<<CNeg(C1), C1, C1, C1>>)
SignedPerms == { PermMatrix(q) : q \in Perms4 } \cup { Dot4(PermMatrix(q), NegFirst) : q \in Perms4 }
Rotated == { Dot4(PermMatrix(q), Givens) : q \in Perms4 }
OrthoCands(u) ==
    CASE u = "diag" -> SignedPerms \cup Rotated
      [] u = "again" -> { PermMatrix(q) : q \in Perms4 } \cup Rotated
      [] OTHER -> SignedPerms
IsSortedDiagonal(E) ==
    /\ \A i, j \in 1..4 : i # j => E[i][j] = C0
    /\ \A i \in 1..3 : ReFix(E[i][i]) <= ReFix(E[i + 1][i + 1])
IsEigenvectorMatrix(P, m) == IsSortedDiagonal(Dot4(Dot4(Transpose4(P), m), P))
selfadjoint_eigendecomposition(u, m) == { P \in OrthoCands(u) : IsEigenvectorMatrix(P, m) }
\* the solver is a function of its input: a matrix it was given before gets the
\* eigenvectors it got before
Solve(s, u, m) ==
    IF \E e \in s : e[1] = m
    THEN { e[2] : e \in { x \in s : x[1] = m } }
    ELSE selfadjoint_eigendecomposition(u, m)


(***************************************************************************)
(* State                                                                   *)
(***************************************************************************)
VARIABLES
    pc,              \* position of the caller: which call is in progress
    universe,        \* the set of inputs this behaviour draws from
    unitary_matrix,  \* argument of TwoQubitWeylDecomposition::new
    state,           \* the Pcg64Mcg generator: [stream, pos]
    loop,            \* locals of the diagonalisation loop of new
    weyl,            \* locals of new after the reorder and the folding into the Weyl chamber
    args,            \* the arguments fidelity and specialization of new
    specialized,     \* the local "specialized" of new (line 566)
    self,            \* the TwoQubitWeylDecomposition object
    ret,             \* what new returned: "none", "Ok", "PyTypeError", "PyValueError"
    message,         \* the matrix formatted into the PyTypeError message
    sequence,        \* the TwoQubitGateSequence returned by the last circuit() call
    last,            \* the arguments of the last circuit() call
    calls,           \* number of circuit() calls made
    solved,          \* the eigensolver's results so far: pairs <<matrix, eigenvectors>>
    built,           \* the outcome of every finished construction, in order
    coords,          \* the calls of the coordinate-only path and of _num_basis_gates
    applied,         \* the last application of a function of the library: its input and output
    blocks,          \* blocks_to_matrix: op_list, the position in it, matrix and result
    gate_map         \* STDGATE_PYTHON_GATES: whether the cell is set, and its array

vars == <<pc, universe, unitary_matrix, state, loop, weyl, args, specialized, self, ret, message,
          sequence, last, calls, solved, built, coords, applied, blocks, gate_map>>
\* the state outside TwoQubitWeylDecomposition
library == <<applied, blocks, gate_map>>
\* the state of the constructor and of circuit()
decomposition == <<pc, unitary_matrix, state, loop, weyl, args, specialized, self, ret, message,
                   sequence, last, calls, solved, built, coords>>

Specializations ==
    { "General", "IdEquiv", "SWAPEquiv", "PartialSWAPEquiv", "PartialSWAPFlipEquiv",
      "ControlledEquiv", "MirrorControlledEquiv", "SimaabEquiv", "SimabbEquiv", "SimabmbEquiv" }
NoSpecialization == "None"

\* the retry budget of the diagonalisation loop (for _ in 0..100)
MaxAttempts == 100
\* bound on the number of circuit() calls on one decomposition
MaxCalls == 2
\* bound on the number of constructions one caller makes
MaxConstructions == 2

(***************************************************************************)
(* Inputs: unitaries zeta^ph * (l (x) r) * exp(i(a XX + b YY + c ZZ))      *)
(***************************************************************************)
InputMatrix(in) ==
    Scale4(Zeta(in.ph), Dot4(Kron(in.l, in.r), CanonicalMatrix(in.a, in.b, in.c)))
In(ph, l, r, a, b, c) == [ph |-> ph, l |-> l, r |-> r, a |-> a, b |-> b, c |-> c]
\* Weyl chamber points with coordinates in multiples of pi/8
ChamberPoints ==
    { <<0, 0, 0>>, <<ZU, 0, 0>>, <<ZU, ZU, 0>>, <<ZU, ZU, ZU>>, <<ZU, ZU, -ZU>>,
      <<PI4, 0, 0>>, <<PI4, ZU, 0>>, <<PI4, ZU, ZU>>, <<PI4, PI4, 0>>,
      <<PI4, PI4, ZU>>, <<PI4, PI4, -ZU>>, <<PI4, PI4, -PI4>>, <<PI4, ZU, -ZU>> }
Inputs(u) ==
    CASE u = "diag" -> { In(0, Eye2, Eye2, PI4, ZU, 0) }
      [] u = "again" -> { In(0, Eye2, Eye2, PI4, ZU, 0), In(0, Eye2, Eye2, ZU, ZU, 0) }
      [] u = "circ" -> { In(0, Eye2, Eye2, 0, 0, 0), In(-2, Eye2, Eye2, PI4, PI4, PI4),
                         In(0, Eye2, Eye2, PI4, PI4, 0), In(0, ipx, ry_gate(PI2), PI4, ZU, 0),
                         In(1, Eye2, ipz, ZU, 0, 0) }
      [] OTHER -> { In(0, Eye2, Eye2, t[1], t[2], t[3]) : t \in ChamberPoints }
                  \cup { In(-2, Eye2, Eye2, PI4, PI4, PI4), In(0, ipx, ry_gate(PI2), PI4, 0, 0),
                         In(1, ipz, Eye2, ZU, ZU, 0) }

\* StandardNormal samples of the generator seeded with 2023: the model knows the
\* stream only up to a choice among these
Streams(u) ==
    CASE u = "diag" -> {"generic", "late", "degenerate"}
      [] u = "again" -> {"generic", "late"}
      [] OTHER -> {"generic"}
GenericPairs == << <<3, 1>>, <<1, -2>>, <<-2, -3>> >>
Sample(st) ==
    LET k == st.pos \div 2
        pair == IF st.stream = "degenerate" THEN <<1, 0>>
                ELSE IF st.stream = "late" /\ k = 0 THEN <<1, 0>>
                ELSE IF st.stream = "late" /\ k = 1 THEN <<0, 1>>
                ELSE GenericPairs[(k % 3) + 1]
    IN pair[(st.pos % 2) + 1]
seed_from_u64(stream) == [stream |-> stream, pos |-> 0]
Advance(st) == [st EXCEPT !.pos = @ + 1]
\* a generator that goes on from where the last construction left it
Carried(st) == st
\* line 387: the generator of a construction, whatever generator there was
Seeded(st) == seed_from_u64(st.stream)

\* the fidelity argument: None or a requested fidelity
Fidelities(u) ==
    IF u = "full" THEN {NoFidelity, DEFAULT_FIDELITY, <<8500, 0>>, <<FS, 1>>}
    ELSE {DEFAULT_FIDELITY}
\* the specialization argument: None or a forced specialization
\* the number of constructions the caller makes
Constructions(u) == IF u = "again" THEN MaxConstructions ELSE 1
Forced(u) ==
    CASE u = "full" -> Specializations \cup {NoSpecialization}
      [] u = "circ" -> {NoSpecialization, "SWAPEquiv", "MirrorControlledEquiv"}
      [] OTHER -> {NoSpecialization}

NoLoop == [global_phase |-> 0, u_p |-> Eye4, m2 |-> Eye4, i |-> 0, found |-> FALSE,
           p |-> Eye4, d |-> <<C0, C0, C0, C0>>]
NoWeyl == [a |-> 0, b |-> 0, c |-> 0, global_phase |-> 0, conjs |-> 0,
           K1l |-> Eye2, K1r |-> Eye2, K2l |-> Eye2, K2r |-> Eye2,
           order |-> <<1, 2, 3>>, cs |-> <<0, 0, 0>>, d |-> <<0, 0, 0, 0>>, p |-> Eye4]
NoSelf == [a |-> 0, b |-> 0, c |-> 0, global_phase |-> 0,
           K1l |-> Eye2, K2l |-> Eye2, K1r |-> Eye2, K2r |-> Eye2,
           specialization |-> NoSpecialization, default_euler_basis |-> "ZYZ",
           requested_fidelity |-> NoFidelity, calculated_fidelity |-> <<FS, 0>>]
NoArgs == [fidelity |-> NoFidelity, specialization |-> NoSpecialization]
NoBasis == "None"
NoCall == [euler_basis |-> NoBasis, simplify |-> FALSE, atol |-> NoAtol]
\* no matrix has been formatted into an error message
NoMessage == << >>
NoSequence == [gates |-> << >>, global_phase |-> 0]
\* no call of the coordinate-only path was made
NoCoords == [D |-> << >>, fast |-> {}, full |-> {}, counts |-> {}]
NoApplication == [fn |-> "none"]
NoBlocks == [op_list |-> << >>, index |-> 0, matrix |-> Eye4, result |-> Eye4]
\* the GILOnceCell before it is initialised
\* the number of StandardGate variants modelled (18 in the source; the slots
\* of the array are handled one by one)
STANDARD_GATE_SIZE == 3
StandardGate == 0..(STANDARD_GATE_SIZE - 1)
None == <<"None">>
Some(x) == <<"Some", x>>
\* imports.rs, lines 107-110 and 132-135: the array of None
NoneArray == [g \in StandardGate |-> None]
\* imports.rs, lines 92-93: GILOnceCell::new()
NoGateMap == [initialized |-> FALSE, array |-> NoneArray]

InitWith(u, co) ==
    /\ pc = "idle"
    /\ universe = u
    /\ unitary_matrix = Eye4
    /\ state \in { seed_from_u64(st) : st \in Streams(u) }
    /\ loop = NoLoop
    /\ weyl = NoWeyl
    /\ args = NoArgs
    /\ specialized = NoSelf
    /\ self = NoSelf
    /\ ret = "none"
    /\ message = NoMessage
    /\ sequence = NoSequence
    /\ last = NoCall
    /\ calls = 0
    /\ solved = {}
    /\ built = << >>
    /\ coords = co
    /\ applied = NoApplication
    /\ blocks = NoBlocks
    /\ gate_map = NoGateMap
InitIn(u) == InitWith(u, NoCoords)

(***************************************************************************)
(* TwoQubitWeylDecomposition::new, lines 354-390: normalisation, magic     *)
(* basis, M2 and the seeding of the generator                              *)
(***************************************************************************)
new_begin ==
    /\ pc \in {"idle", "returned"}
    /\ Len(built) < Constructions(universe)
    /\ \E in \in Inputs(universe) :
       \E um \in {InputMatrix(in)} :
       \E det_u \in {Determinant(um)} :
       \* det_u.powf(-0.25) and det_u.arg() / 4.
       \E quarter \in {HalfAngle(HalfAngle(Arg(det_u)))} :
       \E u_p \in {transform_from_magic_basis(Scale4(ExpI(-quarter), um), TRUE)} :
         /\ unitary_matrix' = um
         /\ loop' = [NoLoop EXCEPT !.global_phase = quarter, !.u_p = u_p,
                                   !.m2 = Dot4(Transpose4(u_p), u_p)]
    /\ state' = Seeded(state)
    /\ pc' = "loop"
    /\ UNCHANGED <<universe, weyl, args, specialized, self, ret, message, sequence, last, calls,
                   solved, built, coords, library>>

(***************************************************************************)
(* lines 391-420: one iteration of the diagonalisation loop                *)
(***************************************************************************)
\* a comparison that accepts every reconstruction
abs_diff_eq_any(compare, m2) == TRUE
\* line 415: abs_diff_eq!(compare, m2, epsilon = 1.0e-13), on exact entries
abs_diff_eq(compare, m2) == compare = m2

new_attempt ==
    /\ pc = "loop"
    /\ loop.i < MaxAttempts
    /\ LET rand_a == Sample(state)
           rand_b == Sample(Advance(state))
           mix(x) == CAdd(CMul(CInt(rand_a), CRe(x)), CMul(CInt(rand_b), CIm(x)))
       IN \E m2_real \in {Map4(mix, loop.m2)} :
          \E p \in Solve(solved, universe, m2_real) :
          \E d \in {DiagOf4(Dot4(Dot4(Transpose4(p), loop.m2), p))} :
          \E compare \in {Dot4(Dot4(p, Diag4(d)), Transpose4(p))} :
          \E found \in {abs_diff_eq(compare, loop.m2)} :
            /\ loop' = [loop EXCEPT !.p = p, !.d = d, !.found = found, !.i = @ + 1]
            /\ pc' = IF found \/ loop.i + 1 = MaxAttempts THEN "diagonalized" ELSE "loop"
            /\ solved' = solved \cup {<<m2_real, p>>}
    /\ state' = Advance(Advance(state))
    /\ UNCHANGED <<universe, unitary_matrix, weyl, args, specialized, self, ret, message, sequence,
                   last, calls, built, coords, library>>

(***************************************************************************)
(* lines 421-425: no attempt was verified                                  *)
(***************************************************************************)
\* what a caller sees of a construction: its arguments and its result
Outcome(um, arg, r, obj) ==
    [unitary_matrix |-> um, fidelity |-> arg.fidelity, specialization |-> arg.specialization,
     ret |-> r, a |-> obj.a, b |-> obj.b, c |-> obj.c, global_phase |-> obj.global_phase,
     chosen |-> obj.specialization]
new_fail ==
    /\ pc = "diagonalized"
    /\ ~loop.found
    /\ ret' = "PyTypeError"
    /\ message' = unitary_matrix
    /\ built' = Append(built, Outcome(unitary_matrix, NoArgs, "PyTypeError", NoSelf))
    /\ pc' = "returned"
    /\ UNCHANGED <<universe, unitary_matrix, state, loop, weyl, args, specialized, self, sequence,
                   last, calls, solved, coords, library>>

(***************************************************************************)
(* lines 428-464: Weyl coordinates from D, ordering, and the local gates   *)
(***************************************************************************)
\* lines 428-429: d = -arg(D)/2 with the last entry fixed by the others
HalfArgs(dd) ==
    LET Closed(d) == <<d[1], d[2], d[3], -d[1] - d[2] - d[3]>>
    IN Closed([k \in 1..3 |-> -(HalfAngle(Arg(dd[k])))])
\* lines 430-432
CsOf(d) == [i \in 1..3 |-> rem_euclid(HalfAngle(d[i] + d[4]), TWO_PI)]
\* lines 433-437
CsTemp(cs) == [i \in 1..3 |-> Min(rem_euclid(cs[i], PI2), PI2 - rem_euclid(cs[i], PI2))]
\* lines 438-439: argsort, then the cyclic shift of the order
\* the cyclic shift in the other direction
ShiftBack(o) == <<o[3], o[1], o[2]>>
Shift(o) == <<o[2], o[3], o[1]>>
OrderOf(cs) == Shift(arg_sort(CsTemp(cs)))
\* lines 442-450: the columns of P follow the order; the last one is negated
\* when the determinant is negative
\* the columns moved inside p itself, without the copy p_orig
ReorderP_inplace(p, order) ==
    LET Put(q, i, j) == [r \in 1..4 |-> [q[r] EXCEPT ![i] = q[r][j]]]
        Fix(q) == IF ReFix(Determinant(q)) < 0
                  THEN [r \in 1..4 |-> <<q[r][1], q[r][2], q[r][3], CNeg(q[r][4])>>]
                  ELSE q
    IN Fix(Put(Put(Put(p, 1, order[1]), 2, order[2]), 3, order[3]))
ReorderP(p, order) ==
    LET Fix(q) == IF ReFix(Determinant(q)) < 0
                  THEN [r \in 1..4 |-> <<q[r][1], q[r][2], q[r][3], CNeg(q[r][4])>>]
                  ELSE q
    IN Fix([r \in 1..4 |-> <<p[r][order[1]], p[r][order[2]], p[r][order[3]], p[r][4]>>])

(***************************************************************************)
(* lines 466-519: flip into the Weyl chamber.  A fold state is the record  *)
(* [cs, K1l, K1r, K2r, conjs, global_phase]                                *)
(***************************************************************************)
Fold1(w) ==
    IF w.cs[1] > PI2
    THEN [w EXCEPT !.cs[1] = @ - PI32, !.K1l = Dot2(@, ipy), !.K1r = Dot2(@, ipy),
                   !.global_phase = @ + PI2]
    ELSE w
Fold2(w) ==
    IF w.cs[2] > PI2
    THEN [w EXCEPT !.cs[2] = @ - PI32, !.K1l = Dot2(@, ipx), !.K1r = Dot2(@, ipx),
                   !.global_phase = @ + PI2]
    ELSE w
Fold3(w) ==
    IF w.cs[1] > PI4
    THEN [w EXCEPT !.cs[1] = PI2 - @, !.K1l = Dot2(@, ipy), !.K2r = Dot2(ipy, @),
                   !.conjs = @ + 1, !.global_phase = @ - PI2]
    ELSE w
\* lines 487-497: conjs is incremented at line 489 and again at line 492
Fold4Conjs(conjs) == conjs + 1 + 1
Fold4(w) ==
    IF w.cs[2] > PI4
    THEN LET conjs == Fold4Conjs(w.conjs)
         IN [w EXCEPT !.cs[2] = PI2 - @, !.K1l = Dot2(@, ipx), !.K2r = Dot2(ipx, @),
                      !.conjs = conjs,
                      !.global_phase = @ + PI2 - (IF conjs = 1 THEN PI ELSE 0)]
    ELSE w
Fold5(w) ==
    IF w.cs[3] > PI2
    THEN [w EXCEPT !.cs[3] = @ - PI32, !.K1l = Dot2(@, ipz), !.K1r = Dot2(@, ipz),
                   !.global_phase = @ + PI2 - (IF w.conjs = 1 THEN PI ELSE 0)]
    ELSE w
Fold6(w) ==
    IF w.conjs = 1
    THEN [w EXCEPT !.cs[3] = PI2 - @, !.K1l = Dot2(@, ipz), !.K2r = Dot2(ipz, @),
                   !.global_phase = @ + PI2]
    ELSE w
\* the folding without its last conditional
Fold7_skipped(w) == w
Fold7(w) ==
    IF w.cs[3] > PI4
    THEN [w EXCEPT !.cs[3] = @ - PI2, !.K1l = Dot2(@, ipz), !.K1r = Dot2(@, ipz),
                   !.global_phase = @ - PI2]
    ELSE w
FlipIntoWeylChamber(w) == Fold7(Fold6(Fold5(Fold4(Fold3(Fold2(Fold1(w)))))))

new_weyl ==
    /\ pc = "diagonalized"
    /\ loop.found
    /\ \E d0 \in {HalfArgs(loop.d)} :
       \E cs0 \in {CsOf(d0)} :
       \E order \in {OrderOf(cs0)} :
       \E cs \in {<<cs0[order[1]], cs0[order[2]], cs0[order[3]]>>} :
       \E d \in {<<d0[order[1]], d0[order[2]], d0[order[3]], d0[4]>>} :
       \E p \in {ReorderP(loop.p, order)} :
       \E temp \in {Diag4([k \in 1..4 |-> ExpI(d[k])])} :
       \E k1 \in {transform_from_magic_basis(Dot4(Dot4(loop.u_p, p), temp), FALSE)} :
       \E k2 \in {transform_from_magic_basis(Transpose4(p), FALSE)} :
       \E g1 \in {decompose_two_qubit_product_gate(k1)} :
       \E g2 \in {decompose_two_qubit_product_gate(k2)} :
       \E w \in {FlipIntoWeylChamber(
                   [cs |-> cs, K1l |-> g1[1], K1r |-> g1[2], K2r |-> g2[2], conjs |-> 0,
                    global_phase |-> loop.global_phase + g1[3] + g2[3]])} :
          weyl' = [a |-> w.cs[2], b |-> w.cs[1], c |-> w.cs[3],
                   global_phase |-> w.global_phase, conjs |-> w.conjs,
                   K1l |-> w.K1l, K1r |-> w.K1r, K2l |-> g2[1], K2r |-> w.K2r,
                   \* order, and cs, d and p as they are after line 450
                   order |-> order, cs |-> cs, d |-> d, p |-> p]
    /\ loop' = NoLoop
    /\ pc' = "folded"
    /\ UNCHANGED <<universe, unitary_matrix, state, args, specialized, self, ret, message, sequence,
                   last, calls, solved, built, coords, library>>

(***************************************************************************)
(* lines 521-564: the choice of the specialization                         *)
(***************************************************************************)
\* is_close with DEFAULT_FIDELITY standing in for an absent fidelity
is_close_defaulted(w, fidelity, ap, bp, cp) ==
    LET tr == TraceOver4(w.a - ap, w.b - bp, w.c - cp)
    IN FLeq(IF fidelity # NoFidelity THEN fidelity ELSE DEFAULT_FIDELITY, trace_to_fid(tr))
\* lines 521-534, for the folded coordinates of w
is_close(w, fidelity, ap, bp, cp) ==
    LET tr == TraceOver4(w.a - ap, w.b - bp, w.c - cp)
    IN IF fidelity # NoFidelity THEN FLeq(fidelity, trace_to_fid(tr)) ELSE FALSE

\* the selection with the ControlledEquiv test moved to the front
SelectControlledFirst(w, fidelity, specialization) ==
    IF specialization # NoSpecialization THEN specialization
    ELSE IF is_close(w, fidelity, w.a, 0, 0) THEN "ControlledEquiv"
    ELSE IF is_close(w, fidelity, 0, 0, 0) THEN "IdEquiv"
    ELSE IF is_close(w, fidelity, PI4, PI4, PI4) \/ is_close(w, fidelity, PI4, PI4, -PI4)
         THEN "SWAPEquiv"
    ELSE "General"
\* lines 536-564
Select(w, fidelity, specialization) ==
    LET closest_abc == closest_partial_swap(w.a, w.b, w.c)
        closest_ab_minus_c == closest_partial_swap(w.a, w.b, -w.c)
    IN IF specialization # NoSpecialization THEN specialization
       ELSE IF is_close(w, fidelity, 0, 0, 0) THEN "IdEquiv"
       ELSE IF is_close(w, fidelity, PI4, PI4, PI4) \/ is_close(w, fidelity, PI4, PI4, -PI4)
            THEN "SWAPEquiv"
       ELSE IF is_close(w, fidelity, closest_abc, closest_abc, closest_abc)
            THEN "PartialSWAPEquiv"
       ELSE IF is_close(w, fidelity, closest_ab_minus_c, closest_ab_minus_c, closest_ab_minus_c)
            THEN "PartialSWAPFlipEquiv"
       ELSE IF is_close(w, fidelity, w.a, 0, 0) THEN "ControlledEquiv"
       ELSE IF is_close(w, fidelity, PI4, PI4, w.c) THEN "MirrorControlledEquiv"
       ELSE IF is_close(w, fidelity, RDiv(w.a + w.b, 2), RDiv(w.a + w.b, 2), w.c)
            THEN "SimaabEquiv"
       ELSE IF is_close(w, fidelity, w.a, RDiv(w.b + w.c, 2), RDiv(w.b + w.c, 2))
            THEN "SimabbEquiv"
       ELSE IF is_close(w, fidelity, w.a, RDiv(w.b - w.c, 2), RDiv(w.c - w.b, 2))
            THEN "SimabmbEquiv"
       ELSE "General"

(***************************************************************************)
(* lines 566-792: the specialized decomposition.  The result carries the   *)
(* flag flipped_from_original next to the fields of the object.            *)
(***************************************************************************)
Base(w, fidelity, specialization) ==
    [a |-> w.a, b |-> w.b, c |-> w.c, global_phase |-> w.global_phase,
     K1l |-> w.K1l, K2l |-> w.K2l, K1r |-> w.K1r, K2r |-> w.K2r,
     specialization |-> specialization, default_euler_basis |-> "ZYZ",
     requested_fidelity |-> fidelity, calculated_fidelity |-> <<FS, 0>>,
     flipped_from_original |-> FALSE]

IdEquiv(w, f) ==
    [Base(w, f, "IdEquiv") EXCEPT !.a = 0, !.b = 0, !.c = 0,
        !.K1l = Dot2(w.K1l, w.K2l), !.K1r = Dot2(w.K1r, w.K2r), !.K2l = Eye2, !.K2r = Eye2]
SWAPEquiv(w, f) ==
    IF w.c > 0
    THEN [Base(w, f, "SWAPEquiv") EXCEPT !.a = PI4, !.b = PI4, !.c = PI4,
            !.K1l = Dot2(w.K1l, w.K2r), !.K1r = Dot2(w.K1r, w.K2l), !.K2l = Eye2, !.K2r = Eye2]
    ELSE [Base(w, f, "SWAPEquiv") EXCEPT !.a = PI4, !.b = PI4, !.c = PI4,
            !.global_phase = w.global_phase + PI2,
            !.K1l = Dot2(Dot2(w.K1l, ipz), w.K2r), !.K1r = Dot2(Dot2(w.K1r, ipz), w.K2l),
            !.K2l = Eye2, !.K2r = Eye2, !.flipped_from_original = TRUE]
PartialSWAPEquiv(w, f) ==
    LET closest == closest_partial_swap(w.a, w.b, w.c)
        k2r_temp == Adjoint2(w.K2l)
    IN [Base(w, f, "PartialSWAPEquiv") EXCEPT !.a = closest, !.b = closest, !.c = closest,
          !.K1l = Dot2(w.K1l, w.K2l), !.K1r = Dot2(w.K1r, w.K2l),
          !.K2r = Dot2(k2r_temp, w.K2r), !.K2l = Eye2]
PartialSWAPFlipEquiv(w, f) ==
    LET closest == closest_partial_swap(w.a, w.b, w.c)
        k2_temp == Adjoint2(w.K2l)
    IN [Base(w, f, "PartialSWAPFlipEquiv") EXCEPT !.a = closest, !.b = closest, !.c = -w.a,
          !.K1l = Dot2(w.K1l, w.K2l),
          !.K1r = Dot2(Dot2(Dot2(w.K1r, ipz), w.K2l), ipz),
          !.K2r = Dot2(Dot2(Dot2(ipz, k2_temp), ipz), w.K2r), !.K2l = Eye2]
ControlledEquiv(w, f, k2l, k2r) ==
    [Base(w, f, "ControlledEquiv") EXCEPT !.b = 0, !.c = 0,
       !.global_phase = w.global_phase + k2l[4] + k2r[4],
       !.K1l = Dot2(w.K1l, rx_matrix(k2l[2])), !.K1r = Dot2(w.K1r, rx_matrix(k2r[2])),
       !.K2l = Dot2(ry_matrix(k2l[1]), rx_matrix(k2l[3])),
       !.K2r = Dot2(ry_matrix(k2r[1]), rx_matrix(k2r[3])),
       !.default_euler_basis = "XYX"]
MirrorControlledEquiv(w, f, k2l, k2r) ==
    [Base(w, f, "MirrorControlledEquiv") EXCEPT !.a = PI4, !.b = PI4,
       !.global_phase = w.global_phase + k2l[4] + k2r[4],
       !.K1l = Dot2(w.K1l, rz_matrix(k2l[2])), !.K1r = Dot2(w.K1r, rz_matrix(k2r[2])),
       !.K2l = Dot2(ry_matrix(k2l[1]), rz_matrix(k2l[3])),
       !.K2r = Dot2(ry_matrix(k2r[1]), rz_matrix(k2r[3]))]
SimaabEquiv(w, f, k2l) ==
    [Base(w, f, "SimaabEquiv") EXCEPT !.a = RDiv(w.a + w.b, 2), !.b = RDiv(w.a + w.b, 2),
       !.global_phase = w.global_phase + k2l[4],
       !.K1r = Dot2(w.K1r, rz_matrix(k2l[2])), !.K1l = Dot2(w.K1l, rz_matrix(k2l[2])),
       !.K2l = Dot2(ry_matrix(k2l[1]), rz_matrix(k2l[3])),
       !.K2r = Dot2(rz_matrix(-k2l[2]), w.K2r)]
SimabbEquiv(w, f, k2l) ==
    [Base(w, f, "SimabbEquiv") EXCEPT !.b = RDiv(w.b + w.c, 2), !.c = RDiv(w.b + w.c, 2),
       !.global_phase = w.global_phase + k2l[4],
       !.K1r = Dot2(w.K1r, rx_matrix(k2l[2])), !.K1l = Dot2(w.K1l, rx_matrix(k2l[2])),
       !.K2l = Dot2(ry_matrix(k2l[1]), rz_matrix(k2l[3])),
       !.K2r = Dot2(ry_matrix(-k2l[2]), w.K2r),
       !.default_euler_basis = "XYX"]
SimabmbEquiv(w, f, k2l) ==
    [Base(w, f, "SimabmbEquiv") EXCEPT !.b = RDiv(w.b - w.c, 2), !.c = RDiv(w.b - w.c, 2),
       !.global_phase = w.global_phase + k2l[4],
       !.K1l = Dot2(w.K1l, rz_matrix(k2l[2])),
       !.K1r = Dot2(Dot2(Dot2(w.K1r, ipz), rx_matrix(k2l[2])), ipz),
       !.K2l = Dot2(ry_matrix(k2l[1]), rx_matrix(k2l[3])),
       !.K2r = Dot2(Dot2(Dot2(ipz, rx_matrix(-k2l[2])), ipz), w.K2r),
       !.default_euler_basis = "XYX"]
General(w, f) == Base(w, f, "General")

\* the arms call angles_from_unitary on K2l (and K2r) in their own basis
Specialized(w, f, specialization) ==
    CASE specialization = "IdEquiv" -> IdEquiv(w, f)
      [] specialization = "SWAPEquiv" -> SWAPEquiv(w, f)
      [] specialization = "PartialSWAPEquiv" -> PartialSWAPEquiv(w, f)
      [] specialization = "PartialSWAPFlipEquiv" -> PartialSWAPFlipEquiv(w, f)
      [] specialization = "ControlledEquiv" ->
           ControlledEquiv(w, f, angles_from_unitary(w.K2l, "XYX"),
                           angles_from_unitary(w.K2r, "XYX"))
      [] specialization = "MirrorControlledEquiv" ->
           MirrorControlledEquiv(w, f, angles_from_unitary(w.K2l, "ZYZ"),
                                 angles_from_unitary(w.K2r, "ZYZ"))
      [] specialization = "SimaabEquiv" -> SimaabEquiv(w, f, angles_from_unitary(w.K2l, "ZYZ"))
      [] specialization = "SimabbEquiv" -> SimabbEquiv(w, f, angles_from_unitary(w.K2l, "XYX"))
      [] specialization = "SimabmbEquiv" -> SimabmbEquiv(w, f, angles_from_unitary(w.K2l, "XYX"))
      [] OTHER -> General(w, f)

(***************************************************************************)
(* lines 521-834: specialization, recomputed fidelity, and the return      *)
(***************************************************************************)
\* lines 803-823
TraceOf(w, sp) ==
    IF sp.flipped_from_original
    THEN TraceOver4(PI2 - w.a - sp.a, w.b - sp.b, -w.c - sp.c)
    ELSE TraceOver4(w.a - sp.a, w.b - sp.b, w.c - sp.c)
\* the comparison without the 1.0e-13 allowance
BelowRequestedStrict(calculated_fidelity, fid) == FLess(calculated_fidelity, fid)
\* line 827
BelowRequested(calculated_fidelity, fid) == FLess(FAddEps(calculated_fidelity), fid)
Object(sp) ==
    [a |-> sp.a, b |-> sp.b, c |-> sp.c, global_phase |-> sp.global_phase,
     K1l |-> sp.K1l, K2l |-> sp.K2l, K1r |-> sp.K1r, K2r |-> sp.K2r,
     specialization |-> sp.specialization, default_euler_basis |-> sp.default_euler_basis,
     requested_fidelity |-> sp.requested_fidelity,
     calculated_fidelity |-> sp.calculated_fidelity]

new_specialize ==
    /\ pc = "folded"
    /\ \E fidelity \in Fidelities(universe) :
       \E specialization \in Forced(universe) :
       \E sp \in {Specialized(weyl, fidelity, Select(weyl, fidelity, specialization))} :
       \E tr \in {TraceOf(weyl, sp)} :
       \E calc \in {trace_to_fid(tr)} :
       \E fails \in {sp.requested_fidelity # NoFidelity
                        /\ BelowRequested(calc, sp.requested_fidelity)} :
       \E result \in {Object([sp EXCEPT
                          !.calculated_fidelity = calc,
                          !.global_phase = IF fails THEN @ ELSE @ + ArgFix(tr[1], tr[2])])} :
          /\ args' = [fidelity |-> fidelity, specialization |-> specialization]
          /\ specialized' = result
          /\ self' = IF fails THEN self ELSE result
          /\ ret' = IF fails THEN "PyValueError" ELSE "Ok"
          /\ built' = Append(built,
                Outcome(unitary_matrix, [fidelity |-> fidelity, specialization |-> specialization],
                        IF fails THEN "PyValueError" ELSE "Ok", result))
    /\ weyl' = NoWeyl
    /\ pc' = "returned"
    /\ UNCHANGED <<universe, unitary_matrix, state, loop, message, sequence, last, calls, solved,
                   coords, library>>

(***************************************************************************)
(* weyl_gate, lines 306-335: the canonical block appended to the sequence; *)
(* returns the new object and the new sequence                             *)
(***************************************************************************)
\* weyl_gate without the SWAPEquiv arm: SWAPEquiv emits like MirrorControlledEquiv
weyl_gate_swap_rzz(obj, simplify, seq, atol) ==
    IF obj.specialization \in {"MirrorControlledEquiv", "SWAPEquiv"}
    THEN [self |-> [obj EXCEPT !.global_phase = @ + PI4],
          sequence |-> seq \o << <<"swap", << >>, <<0, 1>> >>,
                                 <<"rzz", <<PI4 - obj.c>>, <<0, 1>> >> >>]
    ELSE [self |-> obj,
          sequence |-> seq \o << <<"rxx", <<-obj.a * 2>>, <<0, 1>> >>,
                                 <<"ryy", <<-obj.b * 2>>, <<0, 1>> >>,
                                 <<"rzz", <<-obj.c * 2>>, <<0, 1>> >> >>]
\* weyl_gate with a rotation kept when its coordinate equals atol
weyl_gate_at_least(obj, simplify, seq, atol) ==
    CASE obj.specialization = "MirrorControlledEquiv" ->
           [self |-> [obj EXCEPT !.global_phase = @ + PI4],
            sequence |-> seq \o << <<"swap", << >>, <<0, 1>> >>,
                                   <<"rzz", <<PI4 - obj.c>>, <<0, 1>> >> >>]
      [] obj.specialization = "SWAPEquiv" ->
           [self |-> [obj EXCEPT !.global_phase = @ - 3 * PI4],
            sequence |-> seq \o << <<"swap", << >>, <<0, 1>> >> >>]
      [] OTHER ->
           [self |-> obj,
            sequence |-> seq
              \o (IF ~simplify \/ (Abs(obj.a) >= atol /\ obj.a # 0)
                  THEN << <<"rxx", <<-obj.a * 2>>, <<0, 1>> >> >> ELSE << >>)
              \o (IF ~simplify \/ (Abs(obj.b) >= atol /\ obj.b # 0)
                  THEN << <<"ryy", <<-obj.b * 2>>, <<0, 1>> >> >> ELSE << >>)
              \o (IF ~simplify \/ (Abs(obj.c) >= atol /\ obj.c # 0)
                  THEN << <<"rzz", <<-obj.c * 2>>, <<0, 1>> >> >> ELSE << >>)]
weyl_gate(obj, simplify, seq, atol) ==
    CASE obj.specialization = "MirrorControlledEquiv" ->
           [self |-> [obj EXCEPT !.global_phase = @ + PI4],
            sequence |-> seq \o << <<"swap", << >>, <<0, 1>> >>,
                                   <<"rzz", <<PI4 - obj.c>>, <<0, 1>> >> >>]
      [] obj.specialization = "SWAPEquiv" ->
           [self |-> [obj EXCEPT !.global_phase = @ - 3 * PI4],
            sequence |-> seq \o << <<"swap", << >>, <<0, 1>> >> >>]
      [] OTHER ->
           [self |-> obj,
            sequence |-> seq
              \o (IF ~simplify \/ Abs(obj.a) > atol
                  THEN << <<"rxx", <<-obj.a * 2>>, <<0, 1>> >> >> ELSE << >>)
              \o (IF ~simplify \/ Abs(obj.b) > atol
                  THEN << <<"ryy", <<-obj.b * 2>>, <<0, 1>> >> >> ELSE << >>)
              \o (IF ~simplify \/ Abs(obj.c) > atol
                  THEN << <<"rzz", <<-obj.c * 2>>, <<0, 1>> >> >> ELSE << >>)]

(***************************************************************************)
(* circuit, lines 866-935                                                  *)
(***************************************************************************)
\* every gate labelled with qubit 0, whatever the synthesis was for
OnQubitZero(gates, q) == [k \in 1..Len(gates) |-> <<gates[k][1], gates[k][2], <<0, 0>> >>]
\* the gates of a one-qubit synthesis, placed on a qubit (lines 888-890 etc.)
OnQubit(gates, q) == [k \in 1..Len(gates) |-> <<gates[k][1], gates[k][2], <<q, q>> >>]
\* the arguments the caller passes: euler_basis, simplify, atol
CircuitArgs(u) ==
    IF u = "circ"
    THEN [euler_basis : {NoBasis}, simplify : BOOLEAN, atol : {NoAtol, ZU}]
         \cup {[euler_basis |-> "XYX", simplify |-> FALSE, atol |-> NoAtol]}
    ELSE {[euler_basis |-> NoBasis, simplify |-> FALSE, atol |-> NoAtol]}
Calls(u) == CASE u = "circ" -> MaxCalls [] u = "again" -> 0 [] OTHER -> 1

circuit ==
    /\ pc = "returned"
    /\ ret = "Ok"
    /\ calls < Calls(universe)
    /\ \E arg \in CircuitArgs(universe) :
       \E euler_basis \in {IF arg.euler_basis = NoBasis THEN self.default_euler_basis
                            ELSE arg.euler_basis} :
       \* the four syntheses, in the order of the calls: K2r, K2l, K1r, K1l
       \E c \in {[k \in 1..4 |->
                    unitary_to_gate_sequence_inner(<<self.K2r, self.K2l, self.K1r, self.K1l>>[k],
                                                   euler_basis, arg.simplify, arg.atol)]} :
       \E wg \in {weyl_gate(self, arg.simplify, OnQubit(c[1].gates, 0) \o OnQubit(c[2].gates, 1),
                             IF arg.atol = NoAtol THEN DEFAULT_ATOL ELSE arg.atol)} :
          /\ self' = wg.self
          /\ sequence' =
               [gates |-> wg.sequence \o OnQubit(c[3].gates, 0) \o OnQubit(c[4].gates, 1),
                \* line 877, then lines 891, 904 and 918
                global_phase |-> self.global_phase + c[1].global_phase + c[2].global_phase
                                   + c[1].global_phase]
          /\ last' = arg
    /\ calls' = calls + 1
    /\ UNCHANGED <<pc, universe, unitary_matrix, state, loop, weyl, args, specialized, ret, message,
                   solved, built, coords, library>>

Next == new_begin \/ new_attempt \/ new_fail \/ new_weyl \/ new_specialize \/ circuit

\* the families of behaviours: "full" varies the arguments of new, "diag" the
\* outcomes of the diagonalisation loop, "circ" the arguments of circuit(),
\* "again" has the caller construct more than once
Universes == {"full", "diag", "circ", "again"}
Init == \E u \in Universes : InitIn(u)
Spec == Init /\ [][Next]_vars

(***************************************************************************)
(* The coordinate-only path, __weyl_coordinates, and _num_basis_gates.     *)
(* The eigenvalues of transpose(Up) * Up come out of a complex eigensolver *)
(* in an order of its choice: they are the input D here, and the full path *)
(* (lines 428-519 of new) is run on the same D next to it.                 *)
(***************************************************************************)
\* one conditional of the folding: when taken, cs[i] becomes v and conjs grows by n
Taken(w, taken, i, v, n) ==
    [cs |-> IF taken THEN [w.cs EXCEPT ![i] = v] ELSE w.cs,
     conjs |-> IF taken THEN w.conjs + n ELSE w.conjs,
     branches |-> Append(w.branches, taken)]
\* lines 148-171: the folding of the coordinate-only path, with the branches taken
FlipCoordinates(cs0) ==
    LET A0 == { [cs |-> cs0, conjs |-> 0, branches |-> << >>] }
        A1 == { Taken(w, w.cs[1] > PI2, 1, w.cs[1] - PI32, 0) : w \in A0 }
        A2 == { Taken(w, w.cs[2] > PI2, 2, w.cs[2] - PI32, 0) : w \in A1 }
        A3 == { Taken(w, w.cs[1] > PI4, 1, PI2 - w.cs[1], 1) : w \in A2 }
        A4 == { Taken(w, w.cs[2] > PI4, 2, PI2 - w.cs[2], 1) : w \in A3 }
        A5 == { Taken(w, w.cs[3] > PI2, 3, w.cs[3] - PI32, 0) : w \in A4 }
        A6 == { Taken(w, w.conjs = 1, 3, PI2 - w.cs[3], 0) : w \in A5 }
        A7 == { Taken(w, w.cs[3] > PI4, 3, w.cs[3] - PI2, 0) : w \in A6 }
    IN CHOOSE w \in A7 : TRUE
\* lines 132-172, from the eigenvalues on
__weyl_coordinates(D) ==
    LET arg == { [k \in 1..3 |-> -HalfAngle(Arg(D[k]))] }
        darg == { <<a[1], a[2], a[3], -a[1] - a[2] - a[3]>> : a \in arg }
        cs == { [i \in 1..3 |-> rem_euclid(HalfAngle(d[i] + d[4]), TWO_PI)] : d \in darg }
        cstemp == { [unordered |-> c,
                     cstemp |-> [i \in 1..3 |-> Min(rem_euclid(c[i], PI2),
                                                    PI2 - rem_euclid(c[i], PI2))]] : c \in cs }
        sorted == { [unordered |-> r.unordered, order |-> arg_sort(r.cstemp)] : r \in cstemp }
        order == { [unordered |-> r.unordered,
                    order |-> <<r.order[2], r.order[3], r.order[1]>>] : r \in sorted }
        reordered == { [unordered |-> r.unordered, order |-> r.order,
                        flip |-> FlipCoordinates(<<r.unordered[r.order[1]], r.unordered[r.order[2]],
                                                   r.unordered[r.order[3]]>>)] : r \in order }
        result == { [unordered |-> r.unordered, order |-> r.order,
                     reordered |-> <<r.unordered[r.order[1]], r.unordered[r.order[2]],
                                     r.unordered[r.order[3]]>>,
                     conjs |-> r.flip.conjs, branches |-> r.flip.branches,
                     coordinates |-> <<r.flip.cs[2], r.flip.cs[1], r.flip.cs[3]>>] : r \in reordered }
    IN CHOOSE r \in result : TRUE
\* lines 428-440 and 466-519 of new on the same D: the coordinates of the full
\* path, its matrices left at the identity
new_coordinates(D) ==
    LET cs == { CsOf(d0) : d0 \in {HalfArgs(D)} }
        order == { [unordered |-> c, order |-> OrderOf(c)] : c \in cs }
        reordered == { [unordered |-> r.unordered, order |-> r.order,
                        reordered |-> <<r.unordered[r.order[1]], r.unordered[r.order[2]],
                                        r.unordered[r.order[3]]>>] : r \in order }
        flipped == { [unordered |-> r.unordered, order |-> r.order, reordered |-> r.reordered,
                      w |-> FlipIntoWeylChamber(
                              [cs |-> r.reordered, K1l |-> Eye2, K1r |-> Eye2, K2r |-> Eye2,
                               conjs |-> 0, global_phase |-> 0])] : r \in reordered }
        result == { [unordered |-> r.unordered, order |-> r.order, reordered |-> r.reordered,
                     conjs |-> r.w.conjs,
                     coordinates |-> <<r.w.cs[2], r.w.cs[1], r.w.cs[3]>>] : r \in flipped }
    IN CHOOSE r \in result : TRUE

\* f64::powi, fixed point
RECURSIVE powi(_, _)
powi(x, n) == IF n = 0 THEN FS ELSE FMul(powi(x, n - 1), x)
\* trace_to_fid_c64 of 4 * (t[1] + i t[2])
trace_to_fid_c64(t) == RDiv(4 * FS + 16 * RDiv(t[1] * t[1] + t[2] * t[2], FS), 20)
\* lines 188-213: the four scores, for 0, 1, 2 and 3 applications
Scores(basis_b, basis_fidelity, co) ==
    LET traces == << TraceOver4(co[1], co[2], co[3]),
                     TraceOver4(PI4 - co[1], basis_b - co[2], co[3]),
                     <<Cos(co[3]), 0>>,
                     <<FS, 0>> >>
    IN [k \in 1..4 |-> FMul(trace_to_fid_c64(traces[k]), powi(basis_fidelity, k - 1))]
\* Iterator::max_by: among equal scores the last one
max_by(scores) ==
    LET keep(x, y) == IF scores[y] >= scores[x] THEN y ELSE x
    IN keep(keep(keep(1, 2), 3), 4) - 1
\* min_by with the comparison as written for max_by: the lowest score
min_by_lowest(scores) ==
    LET keep(x, y) == IF scores[x] > scores[y] THEN y ELSE x
    IN keep(keep(keep(1, 2), 3), 4) - 1
\* lines 214-216: min_by(|(_, fid1), (_, fid2)| fid2.partial_cmp(fid1)) keeps the
\* earlier element unless the later one has the greater score
min_by(scores) ==
    LET keep(x, y) == IF scores[y] > scores[x] THEN y ELSE x
    IN keep(keep(keep(1, 2), 3), 4) - 1
__num_basis_gates(basis_b, basis_fidelity, D) ==
    LET coordinates == { __weyl_coordinates(d).coordinates : d \in {D} }
        scores == { Scores(basis_b, basis_fidelity, co) : co \in coordinates }
        result == { [basis_b |-> basis_b, basis_fidelity |-> basis_fidelity, scores |-> sc,
                     n |-> min_by(sc)] : sc \in scores }
    IN CHOOSE r \in result : TRUE

\* eigenvalue quadruples of determinant one, arguments in multiples of pi/4
Eigenvalues ==
    { <<Zeta(2 * i), Zeta(2 * j), Zeta(2 * k), Zeta(-2 * (i + j + k))>> : i, j, k \in -3..4 }
\* the basis_b and basis_fidelity arguments
BasisAngles == {PI4, ZU}
BasisFidelities == {FS \div 2, 9 * (FS \div 10), 99 * (FS \div 100), FS}
\* bound on the number of _num_basis_gates calls on one unitary
MaxCounts == 2

InitCoordinates == \E D \in Eigenvalues : InitWith("coordinates", [NoCoords EXCEPT !.D = D])

\* a call of the coordinate-only path
weyl_coordinates ==
    /\ coords.fast = {} /\ coords.counts = {}
    /\ coords' = [coords EXCEPT !.fast = {__weyl_coordinates(coords.D)}]
    /\ UNCHANGED <<pc, universe, unitary_matrix, state, loop, weyl, args, specialized, self, ret,
                   message, sequence, last, calls, solved, built, library>>
\* the full path up to its coordinates
full_coordinates ==
    /\ coords.full = {} /\ coords.counts = {}
    /\ coords' = [coords EXCEPT !.full = {new_coordinates(coords.D)}]
    /\ UNCHANGED <<pc, universe, unitary_matrix, state, loop, weyl, args, specialized, self, ret,
                   message, sequence, last, calls, solved, built, library>>
\* lines 177-184: a call of _num_basis_gates
num_basis_gates ==
    /\ coords.fast = {} /\ coords.full = {}
    /\ Cardinality(coords.counts) < MaxCounts
    /\ \E basis_b \in BasisAngles :
       \E basis_fidelity \in BasisFidelities :
          coords' = [coords EXCEPT
                       !.counts = @ \cup {__num_basis_gates(basis_b, basis_fidelity, coords.D)}]
    /\ UNCHANGED <<pc, universe, unitary_matrix, state, loop, weyl, args, specialized, self, ret,
                   message, sequence, last, calls, solved, built, library>>

NextCoordinates == weyl_coordinates \/ full_coordinates \/ num_basis_gates
SpecCoordinates == InitCoordinates /\ [][NextCoordinates]_vars

(***************************************************************************)
(* Functions checked on their own.  A behaviour of SpecFunctions applies   *)
(* one function, named by its universe, to inputs from a bounded set.      *)
(***************************************************************************)
\* folded coordinates in multiples of pi/16
FoldedCoordinates ==
    { <<a * (ZU \div 2), b * (ZU \div 2), c * (ZU \div 2)>> : <<a, b, c>> \in
        { t \in (0..4) \X (0..4) \X (-4..4) :
            Abs(t[3]) <= t[2] /\ t[2] <= t[1] /\ (t[1] = 4 => t[3] >= 0) } }
RequestedFidelities == {DEFAULT_FIDELITY, <<9500, 0>>, <<8500, 0>>}

\* lines 521-833 of new on folded coordinates, the specialization not forced
specialize_coordinates ==
    /\ universe = "new"
    /\ \E co \in FoldedCoordinates :
       \E fidelity \in RequestedFidelities :
       \E w \in {[NoWeyl EXCEPT !.a = co[1], !.b = co[2], !.c = co[3]]} :
       \E sp \in {Specialized(w, fidelity, Select(w, fidelity, NoSpecialization))} :
       \E tr \in {TraceOf(w, sp)} :
       \E calc \in {trace_to_fid(tr)} :
          applied' = [fn |-> "new", coordinates |-> co, fidelity |-> fidelity,
                      specialization |-> sp.specialization,
                      specialized |-> <<sp.a, sp.b, sp.c>>,
                      flipped_from_original |-> sp.flipped_from_original,
                      calculated_fidelity |-> calc,
                      ret |-> IF BelowRequested(calc, sp.requested_fidelity)
                              THEN "PyValueError" ELSE "Ok"]
    /\ UNCHANGED <<universe, decomposition, blocks, gate_map>>

\* one-qubit unitaries whose upper left entry has modulus 1, 0, 0.71, 0.38, 0.27
OneQubitUnitaries ==
    { Eye2, ipx, ry_gate(PI2), ry_gate(3 * PI4),
      Dot2(Dot2(ry_gate(3 * PI4), rz_gate(PI4)), ry_gate(PI4)) }
\* scalar phases times Kronecker products of two one-qubit unitaries
ProductGates ==
    { Scale4(Zeta(ph), Kron(l, r)) : ph \in {0, 1, 6}, l \in OneQubitUnitaries,
                                     r \in OneQubitUnitaries }
\* lines 101-124.  The square roots of the two determinants leave the ring: the
\* factors are kept as they are before each division, l with the factor
\* conj(sqrt(det_r)) that line 110 has divided out of r, and the result is
\* finite when neither divisor is zero
product_gate ==
    /\ universe = "decompose_two_qubit_product_gate"
    /\ \E unitary \in ProductGates :
       \E r \in {right_candidate(unitary)} :
       \E l \in {left_candidate(unitary, r)} :
          applied' = [fn |-> "decompose_two_qubit_product_gate", unitary |-> unitary,
                      r |-> r, det_r |-> det_one_qubit(r), l |-> l,
                      finite |-> det_one_qubit(r) # C0 /\ det_one_qubit(l) # C0]
    /\ UNCHANGED <<universe, decomposition, blocks, gate_map>>

(***************************************************************************)
(* convert_2q_block_matrix.rs                                              *)
(***************************************************************************)
Zero4 == [i \in 1..4 |-> [j \in 1..4 |-> C0]]
\* lines 24-33: kron(identity, mat)
kron_id2_oneq(oneq_mat) ==
    << <<oneq_mat[1][1], oneq_mat[1][2], C0, C0>>,
       <<oneq_mat[2][1], oneq_mat[2][2], C0, C0>>,
       <<C0, C0, oneq_mat[1][1], oneq_mat[1][2]>>,
       <<C0, C0, oneq_mat[2][1], oneq_mat[2][2]>> >>
\* lines 38-64: the same written into output, row by row
kron_id2_oneq_pre_alloc(output, oneq_mat) ==
    [output EXCEPT ![1] = <<oneq_mat[1][1], oneq_mat[1][2], C0, C0>>,
                   ![2] = <<oneq_mat[2][1], oneq_mat[2][2], C0, C0>>,
                   ![3] = <<C0, C0, oneq_mat[1][1], oneq_mat[1][2]>>,
                   ![4] = <<C0, C0, oneq_mat[2][1], oneq_mat[2][2]>>]
\* lines 67-75: kron(mat, identity)
kron_oneq_id2(oneq_mat) ==
    << <<oneq_mat[1][1], C0, oneq_mat[1][2], C0>>,
       <<C0, oneq_mat[1][1], C0, oneq_mat[1][2]>>,
       <<oneq_mat[2][1], C0, oneq_mat[2][2], C0>>,
       <<C0, oneq_mat[2][1], C0, oneq_mat[2][2]>> >>
\* kron(mat, identity) written into output, the entries that are zero left as
\* they were
kron_oneq_id2_pre_alloc_nonzero(output, oneq_mat) ==
    [output EXCEPT ![1][1] = oneq_mat[1][1], ![1][3] = oneq_mat[1][2],
                   ![2][2] = oneq_mat[1][1], ![2][4] = oneq_mat[1][2],
                   ![3][1] = oneq_mat[2][1], ![3][3] = oneq_mat[2][2],
                   ![4][2] = oneq_mat[2][1], ![4][4] = oneq_mat[2][2]]
\* lines 78-103: the same written into output, row by row
kron_oneq_id2_pre_alloc(output, oneq_mat) ==
    [output EXCEPT ![1] = <<oneq_mat[1][1], C0, oneq_mat[1][2], C0>>,
                   ![2] = <<C0, oneq_mat[1][1], C0, oneq_mat[1][2]>>,
                   ![3] = <<oneq_mat[2][1], C0, oneq_mat[2][2], C0>>,
                   ![4] = <<C0, oneq_mat[2][1], C0, oneq_mat[2][2]>>]
\* lines 146-157: rows 1 and 2 (counted from 0) exchanged in the transpose, and
\* again in the transpose of that
change_basis(matrix) ==
    LET Swapped(m) == <<m[1], m[3], m[2], m[4]>>
    IN Swapped(Transpose4(Swapped(Transpose4(matrix))))

\* the operations of a block: <<matrix, q_list>>
Operations ==
    { <<m, q>> : m \in {ry_gate(PI2), rz_gate(PI2)}, q \in {<<0>>, <<1>>} }
      \cup { <<Kron(ipx, ry_gate(PI2)), q>> : q \in {<<0, 1>>, <<1, 0>>, << >>} }
MaxOps == 3
RECURSIVE OpLists(_)
OpLists(n) ==
    IF n = 0 THEN {<< >>} ELSE { Append(l, op) : l \in OpLists(n - 1), op \in Operations }

\* lines 109-120: the first operation, and the allocation of result
blocks_to_matrix ==
    /\ universe = "blocks_to_matrix"
    /\ blocks.index = 0
    /\ applied = NoApplication
    /\ \E n \in 1..MaxOps : \E op_list \in OpLists(n) :
       \E input_matrix \in {op_list[1][1]} :
          blocks' = [op_list |-> op_list, index |-> 1,
                     matrix |-> CASE op_list[1][2] = <<0>> -> kron_id2_oneq(input_matrix)
                                  [] op_list[1][2] = <<1>> -> kron_oneq_id2(input_matrix)
                                  [] op_list[1][2] = <<0, 1>> -> input_matrix
                                  [] op_list[1][2] = <<1, 0>> -> change_basis(input_matrix)
                                  [] OTHER -> Eye4,
                     result |-> Zero4]
    /\ UNCHANGED <<universe, decomposition, applied, gate_map>>
\* lines 121-141: one iteration of the loop over the other operations
blocks_to_matrix_loop ==
    /\ universe = "blocks_to_matrix"
    /\ blocks.index >= 1
    /\ blocks.index < Len(blocks.op_list)
    /\ \E op_matrix \in {blocks.op_list[blocks.index + 1][1]} :
       \E q_list \in {blocks.op_list[blocks.index + 1][2]} :
       \E result \in {CASE q_list = <<0>> -> kron_id2_oneq_pre_alloc(blocks.result, op_matrix)
                         [] q_list = <<1>> -> kron_oneq_id2_pre_alloc(blocks.result, op_matrix)
                         [] OTHER -> blocks.result} :
          blocks' = [blocks EXCEPT
                       !.index = @ + 1,
                       !.result = result,
                       !.matrix = CASE q_list \in {<<0>>, <<1>>} -> Dot4(result, @)
                                    [] q_list = <<1, 0>> -> Dot4(change_basis(op_matrix), @)
                                    [] q_list = << >> -> @
                                    [] OTHER -> Dot4(op_matrix, @)]
    /\ UNCHANGED <<universe, decomposition, applied, gate_map>>
\* line 142
blocks_to_matrix_return ==
    /\ universe = "blocks_to_matrix"
    /\ blocks.index >= 1
    /\ blocks.index = Len(blocks.op_list)
    /\ applied' = [fn |-> "blocks_to_matrix", op_list |-> blocks.op_list,
                   output |-> blocks.matrix]
    /\ blocks' = NoBlocks
    /\ UNCHANGED <<universe, decomposition, gate_map>>

(***************************************************************************)
(* TwoQubitGateSequence::__getitem__, lines 970-1011                       *)
(***************************************************************************)
\* self.gates[k] for a usize k: a read outside the vector panics
VecIndex(gates, k) == IF k \in 0..(Len(gates) - 1) THEN <<"Ok", gates[k + 1]>> ELSE <<"panic">>
\* the Int arm with the upper bound tested by idx > len
getitem_int_above(gates, idx) ==
    LET len == Len(gates)
    IN IF idx > len \/ idx < -len THEN <<"PyIndexError", idx>>
       ELSE IF idx < 0 THEN VecIndex(gates, len - Abs(idx))
       ELSE VecIndex(gates, idx)
\* lines 997-1007: the Int arm
getitem_int(gates, idx) ==
    LET len == Len(gates)
    IN IF idx >= len \/ idx < -len THEN <<"PyIndexError", idx>>
       ELSE IF idx < 0 THEN VecIndex(gates, len - Abs(idx))
       ELSE VecIndex(gates, idx)
MaxGates == 3
\* sequences of distinct gates
GateVectors == { [k \in 1..n |-> <<"rz", <<k * ZU>>, <<0, 0>> >>] : n \in 0..MaxGates }
\* a call with an integer index; self is borrowed immutably
__getitem__ ==
    /\ universe = "__getitem__"
    /\ \E gates \in GateVectors : \E idx \in (-MaxGates - 2)..(MaxGates + 2) :
          applied' = [fn |-> "__getitem__", gates |-> gates, idx |-> idx,
                      output |-> getitem_int(gates, idx), gates_after |-> gates]
    /\ UNCHANGED <<universe, decomposition, blocks, gate_map>>

(***************************************************************************)
(* The rotation matrices of the three files                                *)
(***************************************************************************)
\* gates.rs, lines 18-24
gates_rz_matrix(theta) ==
    LET Mat(ilam2) == << <<ExpI(-ilam2), C0>>, <<C0, ExpI(ilam2)>> >>
    IN Mat(HalfAngle(theta))
\* angles in multiples of pi/4 over two turns
RotationAngles == { k * 2 * ZU : k \in -8..8 }
\* one angle given to the local helpers and to the standard rotations
rotations ==
    /\ universe = "rotations"
    /\ \E theta \in RotationAngles :
          applied' = [fn |-> "rotations", theta |-> theta,
                      rx_matrix |-> rx_matrix(theta), ry_matrix |-> ry_matrix(theta),
                      rz_matrix |-> rz_matrix(theta),
                      rx_gate |-> rx_gate(theta), ry_gate |-> ry_gate(theta),
                      rz_gate |-> rz_gate(theta), gates_rz_matrix |-> gates_rz_matrix(theta)]
    /\ UNCHANGED <<universe, decomposition, blocks, gate_map>>

(***************************************************************************)
(* gate_matrix.rs: the static gate matrices                                *)
(***************************************************************************)
\* lines 69-155, with the constants of lines 22-26 and FRAC_1_SQRT_2
GATES ==
    LET ZERO == C0
        ONE == C1
        M_ONE == CNeg(C1)
        IM == C1_IM
        M_IM == CNeg(C1_IM)
        FRAC_1_SQRT_2 == CHalf(Sqrt2)
        HALF == CHalf(C1)
    IN [ HGATE |-> << <<FRAC_1_SQRT_2, FRAC_1_SQRT_2>>,
                      <<FRAC_1_SQRT_2, CNeg(FRAC_1_SQRT_2)>> >>,
         CXGATE |-> << <<ONE, ZERO, ZERO, ZERO>>,
                       <<ZERO, ZERO, ZERO, ONE>>,
                       <<ZERO, ZERO, ONE, ZERO>>,
                       <<ZERO, ONE, ZERO, ZERO>> >>,
         SXGATE |-> << <<CAdd(HALF, CMul(IM, HALF)), CAdd(HALF, CMul(M_IM, HALF))>>,
                       <<CAdd(HALF, CMul(M_IM, HALF)), CAdd(HALF, CMul(IM, HALF))>> >>,
         XGATE |-> << <<ZERO, ONE>>, <<ONE, ZERO>> >>,
         ZGATE |-> << <<ONE, ZERO>>, <<ZERO, M_ONE>> >>,
         YGATE |-> << <<M_IM, ZERO>>, <<IM, ZERO>> >>,
         CZGATE |-> << <<ONE, ZERO, ZERO, ZERO>>,
                       <<ZERO, ONE, ZERO, ZERO>>,
                       <<ZERO, ZERO, ONE, ZERO>>,
                       <<ZERO, ZERO, ZERO, M_ONE>> >>,
         CYGATE |-> << <<ONE, ZERO, ZERO, ZERO>>,
                       <<ZERO, ZERO, ZERO, M_IM>>,
                       <<ZERO, ZERO, ONE, ZERO>>,
                       <<ZERO, IM, ZERO, ZERO>> >>,
         CCXGATE |-> << <<ONE, ZERO, ZERO, ZERO, ZERO, ZERO, ZERO, ZERO>>,
                        <<ZERO, ONE, ZERO, ZERO, ZERO, ZERO, ZERO, ZERO>>,
                        <<ZERO, ZERO, ONE, ZERO, ZERO, ZERO, ZERO, ZERO>>,
                        <<ZERO, ZERO, ZERO, ZERO, ZERO, ZERO, ZERO, ONE>>,
                        <<ZERO, ZERO, ZERO, ZERO, ONE, ZERO, ZERO, ZERO>>,
                        <<ZERO, ZERO, ZERO, ZERO, ZERO, ONE, ZERO, ZERO>>,
                        <<ZERO, ZERO, ZERO, ZERO, ZERO, ZERO, ONE, ZERO>>,
                        <<ZERO, ZERO, ZERO, ONE, ZERO, ZERO, ZERO, ZERO>> >>,
         ECRGATE |-> << <<ZERO, FRAC_1_SQRT_2, ZERO, CMul(IM, FRAC_1_SQRT_2)>>,
                        <<FRAC_1_SQRT_2, ZERO, CMul(M_IM, FRAC_1_SQRT_2), ZERO>>,
                        <<ZERO, CMul(IM, FRAC_1_SQRT_2), ZERO, FRAC_1_SQRT_2>>,
                        <<CMul(M_IM, FRAC_1_SQRT_2), ZERO, FRAC_1_SQRT_2, ZERO>> >>,
         SWAPGATE |-> << <<ONE, ZERO, ZERO, ZERO>>,
                         <<ZERO, ZERO, ONE, ZERO>>,
                         <<ZERO, ONE, ZERO, ZERO>>,
                         <<ZERO, ZERO, ZERO, ONE>> >> ]
\* a read of one static matrix
gate_matrix ==
    /\ universe = "gate_matrix"
    /\ \E name \in DOMAIN GATES :
          applied' = [fn |-> "gate_matrix", name |-> name, matrix |-> GATES[name]]
    /\ UNCHANGED <<universe, decomposition, blocks, gate_map>>

(***************************************************************************)
(* imports.rs: the cache of the Python classes of the standard gates       *)
(***************************************************************************)
\* populate_std_gate_map writing the slot whether it is filled or not
populate_std_gate_map_overwrite(map, rs_gate, py_gate) ==
    [initialized |-> TRUE, array |-> [map.array EXCEPT ![rs_gate] = Some(py_gate)]]
\* lines 96-123: the cell is set to the array of None if it is not set; the
\* slot is written only when it is None
populate_std_gate_map(map, rs_gate, py_gate) ==
    LET array == IF map.initialized THEN map.array ELSE NoneArray
        gate_cls == array[rs_gate]
    IN IF gate_cls = None
       THEN [initialized |-> TRUE, array |-> [array EXCEPT ![rs_gate] = Some(py_gate)]]
       ELSE [initialized |-> TRUE, array |-> array]
\* lines 126-152; import is the outcome of import_bound(..)?.getattr(..)?
get_std_gate_class(map, rs_gate, import) ==
    LET got == [initialized |-> TRUE,
                array |-> IF map.initialized THEN map.array ELSE NoneArray]
        gate == got.array[rs_gate]
        populate == gate = None
    IN IF ~populate
       THEN [gate_map |-> got, imported |-> FALSE, ret |-> <<"Ok", gate[2]>>]
       ELSE IF import[1] = "Err"
       THEN [gate_map |-> got, imported |-> TRUE, ret |-> import]
       ELSE [gate_map |-> populate_std_gate_map(got, rs_gate, import[2]),
             imported |-> TRUE, ret |-> import]
\* the class STDGATE_IMPORT_PATHS names for a gate (lines 49-86)
ClassOf(rs_gate) == <<"class", rs_gate>>
\* the Python objects a caller may register
PyObjects == { ClassOf(g) : g \in StandardGate } \cup { <<"object", 0>> }
\* a call of populate_std_gate_map
populate ==
    /\ universe = "imports"
    /\ \E rs_gate \in StandardGate : \E py_gate \in PyObjects :
          /\ gate_map' = populate_std_gate_map(gate_map, rs_gate, py_gate)
          /\ applied' = [fn |-> "populate_std_gate_map", rs_gate |-> rs_gate,
                         py_gate |-> py_gate, before |-> gate_map]
    /\ UNCHANGED <<universe, decomposition, blocks>>
\* a call of get_std_gate_class; the import succeeds or raises
get ==
    /\ universe = "imports"
    /\ \E rs_gate \in StandardGate :
       \E import \in {<<"Ok", ClassOf(rs_gate)>>, <<"Err", "PyErr">>} :
       \E r \in {get_std_gate_class(gate_map, rs_gate, import)} :
          /\ gate_map' = r.gate_map
          /\ applied' = [fn |-> "get_std_gate_class", rs_gate |-> rs_gate,
                         imported |-> r.imported, ret |-> r.ret, before |-> gate_map]
    /\ UNCHANGED <<universe, decomposition, blocks>>

Functions ==
    {"new", "decompose_two_qubit_product_gate", "blocks_to_matrix", "__getitem__", "rotations",
     "gate_matrix", "imports"}
InitFunctions == \E f \in Functions : InitIn(f)
NextFunctions ==
    \/ specialize_coordinates
    \/ product_gate
    \/ blocks_to_matrix
    \/ blocks_to_matrix_loop
    \/ blocks_to_matrix_return
    \/ __getitem__
    \/ rotations
    \/ gate_matrix
    \/ populate
    \/ get
SpecFunctions == InitFunctions /\ [][NextFunctions]_vars

(***************************************************************************)
(* The reconstruction of the input from a decomposition                    *)
(***************************************************************************)
\* the coordinates are multiples of pi/8, where the canonical matrix is exact
OnGrid(obj) == obj.a % ZU = 0 /\ obj.b % ZU = 0 /\ obj.c % ZU = 0
\* (K1l (x) K1r) * exp(i(a XX + b YY + c ZZ)) * (K2l (x) K2r)
Reconstruct(obj) ==
    Dot4(Dot4(Kron(obj.K1l, obj.K1r), CanonicalMatrix(obj.a, obj.b, obj.c)),
         Kron(obj.K2l, obj.K2r))
\* the average gate fidelity (4 + |Tr(R^dagger U)|^2) / 20 of R against U; the
\* global phase cancels in it
ReconFidelity(R, U) ==
    LET Of(t) == trace_to_fid(<<RDiv(ReFix(t), 4), RDiv(ImFix(t), 4)>>)[1]
    IN Of(Trace4(Dot4(Adjoint4(R), U)))

\* C1: a successfully constructed decomposition reconstructs the input to
\* within its calculated_fidelity (up to one unit of the fixed-point scale),
\* whatever specialization was selected or forced
C1_Reconstructs ==
    (pc = "returned" /\ ret = "Ok" /\ OnGrid(self))
        => ReconFidelity(Reconstruct(self), unitary_matrix) + 1 >= self.calculated_fidelity[1]

(***************************************************************************)
(* The sequence returned by circuit()                                      *)
(***************************************************************************)
\* the one-qubit synthesis the last circuit() call made of a local unitary
Synthesis(mat) ==
    unitary_to_gate_sequence_inner(
        mat, IF last.euler_basis = NoBasis THEN self.default_euler_basis ELSE last.euler_basis,
        last.simplify, last.atol)
\* gates i+1 .. j of seq are the gates of a synthesis, all labelled with qubit q
IsGroup(seq, i, j, gates, q) ==
    /\ j - i = Len(gates)
    /\ \A k \in 1..Len(gates) : seq[i + k] = <<gates[k][1], gates[k][2], <<q, q>> >>
\* the operations of seq that act on two qubits
TwoQubitOps(seq) == SelectSeq(seq, LAMBDA g : g[3][1] # g[3][2])

\* C2: circuit() emits the gates of K2r on qubit 0, then those of K2l on
\* qubit 1, then the canonical block on qubits [0,1], then the gates of K1r
\* on qubit 0, then those of K1l on qubit 1, and nothing else
C2_FixedOrder ==
    calls > 0 =>
        LET g == sequence.gates
            n1 == Len(Synthesis(self.K2r).gates)
            n2 == n1 + Len(Synthesis(self.K2l).gates)
            n4 == Len(g) - Len(Synthesis(self.K1l).gates)
            n3 == n4 - Len(Synthesis(self.K1r).gates)
        IN /\ n2 <= n3
           /\ IsGroup(g, 0, n1, Synthesis(self.K2r).gates, 0)
           /\ IsGroup(g, n1, n2, Synthesis(self.K2l).gates, 1)
           /\ \A k \in (n2 + 1)..n3 : g[k][3] = <<0, 1>>
           /\ IsGroup(g, n3, n4, Synthesis(self.K1r).gates, 0)
           /\ IsGroup(g, n4, Len(g), Synthesis(self.K1l).gates, 1)
\* a call in which each of the five groups emitted at least one gate
C2_AllGroupsEmitted ==
    /\ calls > 0
    /\ \A m \in {self.K2r, self.K2l, self.K1r, self.K1l} : Len(Synthesis(m).gates) > 0
    /\ Len(TwoQubitOps(sequence.gates)) > 0
    /\ Len(Synthesis(self.K2r).gates) # Len(Synthesis(self.K1l).gates)

\* the specializations whose canonical block changes the global phase
PhaseCorrected == {"SWAPEquiv", "MirrorControlledEquiv"}

\* two phases that are the same angle
SamePhase(x, y) == rem_euclid(x - y, TWO_PI) = 0

\* C3: the global phase of the returned sequence is the global phase of the
\* decomposition plus the phase of each of the four syntheses (K2r, K2l, K1r,
\* K1l), each counted once; stated where the canonical block adds no phase,
\* and up to whole turns
C3_EachPhaseOnce ==
    (calls > 0 /\ self.specialization \notin PhaseCorrected) =>
        SamePhase(sequence.global_phase,
                  self.global_phase + Synthesis(self.K2r).global_phase
                      + Synthesis(self.K2l).global_phase + Synthesis(self.K1r).global_phase
                      + Synthesis(self.K1l).global_phase)

\* C4: for SWAPEquiv (MirrorControlledEquiv) the global phase of the sequence
\* returned by the first circuit() call is the phase of the constructed
\* decomposition, plus the phases circuit() adds for the syntheses, plus the
\* correction -3 pi/4 (+pi/4) of the canonical block of that call, up to
\* whole turns
C4_CorrectionIncluded ==
    (calls = 1 /\ self.specialization \in PhaseCorrected) =>
        SamePhase(sequence.global_phase,
                  specialized.global_phase
                      + (IF self.specialization = "SWAPEquiv" THEN -3 * PI4 ELSE PI4)
                      + 2 * Synthesis(self.K2r).global_phase
                      + Synthesis(self.K2l).global_phase)

\* C5: for SWAPEquiv the canonical block is one "swap" on qubits [0,1] without
\* parameters, and no rxx, ryy or rzz, whatever simplify and atol are
C5_SwapOnly ==
    (calls > 0 /\ self.specialization = "SWAPEquiv") =>
        TwoQubitOps(sequence.gates) = << <<"swap", << >>, <<0, 1>> >> >>
\* a SWAPEquiv decomposition synthesised with simplify set and an atol given
C5_SwapSimplified ==
    /\ calls > 0
    /\ self.specialization = "SWAPEquiv"
    /\ last.simplify
    /\ last.atol # NoAtol

\* C6: for the Identity specialization, circuit() called with its default
\* arguments emits no two-qubit operation
C6_IdentityEmitsNothing ==
    (calls > 0 /\ self.specialization = "IdEquiv" /\ last = NoCall) =>
        TwoQubitOps(sequence.gates) = << >>

(***************************************************************************)
(* The constructor                                                         *)
(***************************************************************************)
\* the step in which new selects, specializes and returns
Specializes == pc = "folded" /\ pc' = "returned"
\* the families in the order of their tests, and the tests of lines 541-559
Families ==
    <<"IdEquiv", "SWAPEquiv", "PartialSWAPEquiv", "PartialSWAPFlipEquiv", "ControlledEquiv",
      "MirrorControlledEquiv", "SimaabEquiv", "SimabbEquiv", "SimabmbEquiv">>
CandidateTests(w, f) ==
    LET Diagonal(m) == is_close(w, f, m, m, m)
    IN <<is_close(w, f, 0, 0, 0),
         is_close(w, f, PI4, PI4, PI4) \/ is_close(w, f, PI4, PI4, -PI4),
         Diagonal(closest_partial_swap(w.a, w.b, w.c)),
         Diagonal(closest_partial_swap(w.a, w.b, -w.c)),
         is_close(w, f, w.a, 0, 0),
         is_close(w, f, PI4, PI4, w.c),
         is_close(w, f, RDiv(w.a + w.b, 2), RDiv(w.a + w.b, 2), w.c),
         is_close(w, f, w.a, RDiv(w.b + w.c, 2), RDiv(w.b + w.c, 2)),
         is_close(w, f, w.a, RDiv(w.b - w.c, 2), RDiv(w.c - w.b, 2))>>

\* C7: with no specialization forced, the chosen specialization is the first
\* family, in the order Identity, SWAP, PartialSWAP, PartialSWAPFlip,
\* Controlled, MirrorControlled, SimAAB, SimABB, SimABmB, whose test passes on
\* the folded coordinates, and General when no test passes
C7_FirstMatch ==
    [][(Specializes /\ args'.specialization = NoSpecialization) =>
          LET t == CandidateTests(weyl, args'.fidelity)
              chosen == specialized'.specialization
          IN /\ \A i \in 1..9 : (t[i] /\ \A j \in 1..(i - 1) : ~t[j]) => chosen = Families[i]
             /\ (\A i \in 1..9 : ~t[i]) => chosen = "General"]_vars
\* an unforced selection that passed over seven families
C7_LateFamilyChosen ==
    /\ pc = "returned"
    /\ ret = "Ok"
    /\ args.specialization = NoSpecialization
    /\ specialized.specialization = "SimabbEquiv"

\* C8: without a fidelity and without a forced specialization the result is
\* General, with the folded coordinates and the four local unitaries as they
\* were after folding
C8_GeneralUnchanged ==
    [][(Specializes /\ args'.fidelity = NoFidelity /\ args'.specialization = NoSpecialization) =>
          /\ ret' = "Ok"
          /\ self'.specialization = "General"
          /\ <<self'.a, self'.b, self'.c>> = <<weyl.a, weyl.b, weyl.c>>
          /\ <<self'.K1l, self'.K1r, self'.K2l, self'.K2r>>
                = <<weyl.K1l, weyl.K1r, weyl.K2l, weyl.K2r>>]_vars
\* such a construction for an input whose coordinates fold to (pi/4, pi/4, pi/4)
C8_GeneralAtSwapPoint ==
    /\ pc = "returned"
    /\ ret = "Ok"
    /\ args = NoArgs
    /\ self.specialization = "General"
    /\ <<self.a, self.b, self.c>> = <<PI4, PI4, PI4>>

\* the fidelity of the result against the folded coordinates (lines 803-824);
\* the SWAPEquiv arm flips when c is not positive (lines 578-595)
Recomputed(w, obj) ==
    trace_to_fid(IF obj.specialization = "SWAPEquiv" /\ ~(w.c > 0)
                 THEN TraceOver4(PI2 - w.a - obj.a, w.b - obj.b, -w.c - obj.c)
                 ELSE TraceOver4(w.a - obj.a, w.b - obj.b, w.c - obj.c))

\* C9: the constructor fails, returning no object, when a fidelity f was
\* requested and the recomputed fidelity plus 1e-13 is below f; otherwise it
\* returns the decomposition with calculated_fidelity the recomputed value
C9_FidelityCheck ==
    [][Specializes =>
          LET f == args'.fidelity
              calc == Recomputed(weyl, specialized')
          IN IF f # NoFidelity /\ FLess(FAddEps(calc), f)
             THEN ret' = "PyValueError" /\ self' = NoSelf
             ELSE /\ ret' = "Ok"
                  /\ self'.calculated_fidelity = calc
                  /\ self'.requested_fidelity = f]_vars
\* a construction refused because the recomputed fidelity is below the request
C9_Refused ==
    /\ pc = "returned"
    /\ ret = "PyValueError"
    /\ self = NoSelf
    /\ FLess(FAddEps(specialized.calculated_fidelity), args.fidelity)

\* P * diag(D) * P^T is M2, for the P and D the loop holds
Verified(l) == Dot4(Dot4(l.p, Diag4(l.d)), Transpose4(l.p)) = l.m2

\* C10: the loop makes an attempt only while fewer than 100 were made and none
\* was verified; the constructor goes on exactly from a verified attempt, and
\* fails, with the input matrix in its error, exactly after 100 attempts of
\* which none was verified
C10_Loop ==
    [][/\ pc = "loop" =>
            /\ loop.i < MaxAttempts /\ ~loop.found
            /\ loop'.i = loop.i + 1
            /\ loop'.found <=> Verified(loop')
            /\ pc' = (IF Verified(loop') \/ loop'.i = MaxAttempts THEN "diagonalized" ELSE "loop")
       /\ pc = "diagonalized" =>
            IF Verified(loop)
            THEN pc' = "folded" /\ ret' = ret
            ELSE /\ loop.i = MaxAttempts
                 /\ ret' = "PyTypeError" /\ message' = unitary_matrix /\ pc' = "returned"]_vars
\* the constructor failed after 100 unverified attempts
C10_AllAttemptsFailed ==
    /\ ret = "PyTypeError"
    /\ loop.i = MaxAttempts
    /\ ~Verified(loop)
    /\ message = unitary_matrix

(***************************************************************************)
(* Repeated constructions                                                  *)
(***************************************************************************)
\* the generator after n samples from the seed
RECURSIVE AfterSamples(_, _)
AfterSamples(stream, n) ==
    IF n = 0 THEN seed_from_u64(stream) ELSE Advance(AfterSamples(stream, n - 1))
\* two constructions were given the same arguments (a construction that failed
\* to diagonalise never looked at its fidelity and specialization)
SameArguments(x, y) ==
    /\ x.unitary_matrix = y.unitary_matrix
    /\ \/ "PyTypeError" \in {x.ret, y.ret}
       \/ x.fidelity = y.fidelity /\ x.specialization = y.specialization

\* C11: every construction starts from the same seed: attempt k of any
\* construction draws samples 2k and 2k+1 of the seeded stream, however many
\* constructions ran before, and two constructions with the same matrix,
\* fidelity and forced specialization have the same outcome (result, coordinates,
\* phase and specialization)
C11_Reseeded ==
    /\ pc = "loop" =>
          /\ Sample(state) = Sample(AfterSamples(state.stream, 2 * loop.i))
          /\ Sample(Advance(state)) = Sample(AfterSamples(state.stream, 2 * loop.i + 1))
    /\ \A i, j \in 1..Len(built) : SameArguments(built[i], built[j]) => built[i] = built[j]
\* a second construction of the same matrix returned after more than one attempt
C11_SecondConstruction ==
    /\ pc = "returned"
    /\ Len(built) = 2
    /\ SameArguments(built[1], built[2])
    /\ built[2].ret = "Ok"
    /\ state.pos >= 4

(***************************************************************************)
(* The coordinates of both paths                                           *)
(***************************************************************************)
\* the results of the two paths on the eigenvalues D
Paths == coords.fast \cup coords.full
\* 0 <= c <= b <= a <= pi/4
NonNegativeChamber(co) == 0 <= co[3] /\ co[3] <= co[2] /\ co[2] <= co[1] /\ co[1] <= PI4
\* |c| <= b <= a <= pi/4
WeylChamber(co) == Abs(co[3]) <= co[2] /\ co[2] <= co[1] /\ co[1] <= PI4

\* C12: the coordinates (a, b, c) of the coordinate-only path and of the full
\* path satisfy 0 <= c <= b <= a <= pi/4
C12_NonNegativeChamber == \A r \in Paths : NonNegativeChamber(r.coordinates)
\* C12, amended: the coordinates (a, b, c) of the coordinate-only path and of
\* the full path satisfy |c| <= b <= a <= pi/4; c may be negative
C12_WeylChamber == \A r \in Paths : WeylChamber(r.coordinates)
\* both paths ran, the last conditional folded cs[2], and c came out negative
C12_FoldedNegative ==
    /\ coords.full # {}
    /\ \E r \in coords.fast : r.branches[7] /\ r.coordinates[3] < 0 /\ r.coordinates[1] < PI4

(***************************************************************************)
(* The basis-gate counter                                                  *)
(***************************************************************************)
MaxScore(scores) == CHOOSE m \in { scores[k] : k \in 1..4 } : \A k \in 1..4 : scores[k] <= m

\* C13: _num_basis_gates returns a k in 0..3 whose score, fidelity_k times
\* basis_fidelity^k, is the maximum of the four scores, and no lower index has
\* that score
C13_LowestMaximizer ==
    \A r \in coords.counts :
        /\ r.n \in 0..3
        /\ r.scores[4] = FMul(FMul(r.basis_fidelity, r.basis_fidelity), r.basis_fidelity)
        /\ r.scores[r.n + 1] = MaxScore(r.scores)
        /\ \A k \in 0..3 : r.scores[k + 1] = MaxScore(r.scores) => r.n <= k
\* a call in which a higher index ties with the returned one for the maximum
C13_TieForMaximum ==
    \E r \in coords.counts : \E k \in 0..3 : k > r.n /\ r.scores[k + 1] = r.scores[r.n + 1]

\* the conditionals the folding of the full path takes on the reordered triple cs
FullBranches(cs) ==
    LET S0 == { [w |-> [cs |-> cs, K1l |-> Eye2, K1r |-> Eye2, K2r |-> Eye2, conjs |-> 0,
                        global_phase |-> 0], taken |-> << >>] }
        S1 == { [w |-> Fold1(r.w), taken |-> Append(r.taken, r.w.cs[1] > PI2)] : r \in S0 }
        S2 == { [w |-> Fold2(r.w), taken |-> Append(r.taken, r.w.cs[2] > PI2)] : r \in S1 }
        S3 == { [w |-> Fold3(r.w), taken |-> Append(r.taken, r.w.cs[1] > PI4)] : r \in S2 }
        S4 == { [w |-> Fold4(r.w), taken |-> Append(r.taken, r.w.cs[2] > PI4)] : r \in S3 }
        S5 == { [w |-> Fold5(r.w), taken |-> Append(r.taken, r.w.cs[3] > PI2)] : r \in S4 }
        S6 == { [w |-> Fold6(r.w), taken |-> Append(r.taken, r.w.conjs = 1)] : r \in S5 }
        S7 == { Append(r.taken, r.w.cs[3] > PI4) : r \in S6 }
    IN CHOOSE t \in S7 : TRUE
\* the conjugation count after conditionals 3 and 4, the latter adding 2
CountedTwice(taken) == (IF taken[3] THEN 1 ELSE 0) + (IF taken[4] THEN 2 ELSE 0)

\* C16: on the same reordered triple cs the coordinate-only path and the full
\* path take the same conditionals of the folding, keep the same conjugation
\* count (2 added where cs[1] > pi/4) and return the same coordinates
C16_SameFolding ==
    \A f \in coords.fast : \A n \in coords.full :
        f.reordered = n.reordered =>
            /\ f.branches = FullBranches(n.reordered)
            /\ f.conjs = n.conjs
            /\ f.conjs = CountedTwice(f.branches)
            /\ f.coordinates = n.coordinates

\* two calls on the same unitary and basis_b, the second with the greater fidelity
Raised(r1, r2) == r1.basis_b = r2.basis_b /\ r1.basis_fidelity <= r2.basis_fidelity

\* C14: for the same unitary and basis_b, a greater basis_fidelity (up to 1.0)
\* never gives a greater count
C14_NeverMore == \A r1, r2 \in coords.counts : Raised(r1, r2) => r2.n <= r1.n
\* C14, amended: for the same unitary and basis_b and 0 <= f1 <= f2 <= 1.0, the
\* count for f2 is never smaller than the count for f1
C14_NeverFewer ==
    \A r1, r2 \in coords.counts :
        Raised(r1, r2) /\ 0 <= r1.basis_fidelity /\ r2.basis_fidelity <= FS => r1.n <= r2.n
\* two calls of which the one with the greater fidelity returned the greater count
C14_MoreWithGreaterFidelity ==
    \E r1, r2 \in coords.counts :
        Raised(r1, r2) /\ r1.basis_fidelity < r2.basis_fidelity /\ r1.n < r2.n

(***************************************************************************)
(* The coordinates of the specializations                                  *)
(***************************************************************************)
\* the specializations whose coordinates are an exact match
ExactFamilies ==
    { "IdEquiv", "SWAPEquiv", "PartialSWAPEquiv", "PartialSWAPFlipEquiv", "ControlledEquiv",
      "MirrorControlledEquiv" }
\* the specialization step run on the coordinates of obj (the local gates at
\* the identity), with the tag forced: the specialized coordinates and the
\* recomputed fidelity
Again(obj, tag) ==
    LET w == { [a |-> obj.a, b |-> obj.b, c |-> obj.c, global_phase |-> 0,
                K1l |-> Eye2, K1r |-> Eye2, K2l |-> Eye2, K2r |-> Eye2] }
        sp == { [w |-> x, sp |-> Specialized(x, obj.requested_fidelity, tag)] : x \in w }
        result == { [a |-> r.sp.a, b |-> r.sp.b, c |-> r.sp.c,
                     calculated_fidelity |-> trace_to_fid(TraceOf(r.w, r.sp))] : r \in sp }
    IN CHOOSE r \in result : TRUE

\* C15: for the forced tags Identity, SWAP, PartialSWAP, PartialSWAPFlip,
\* Controlled and MirrorControlled, the specialization step run again on the
\* coordinates it produced gives the same coordinates and the fidelity 1.0
C15_Idempotent ==
    pc = "returned" /\ ret # "PyTypeError" /\ args.specialization \in ExactFamilies =>
        Again(specialized, args.specialization) =
            [a |-> specialized.a, b |-> specialized.b, c |-> specialized.c,
             calculated_fidelity |-> <<FS, 0>>]

\* C19: the coordinates of PartialSWAPFlipEquiv are (x, x, -x) with
\* x = closest_partial_swap(a, b, -c)
C19_FlipCoordinates ==
    [][pc = "folded" /\ specialized'.specialization = "PartialSWAPFlipEquiv" =>
         /\ specialized'.a = closest_partial_swap(weyl.a, weyl.b, -weyl.c)
         /\ specialized'.b = specialized'.a
         /\ specialized'.c = -specialized'.a]_vars

\* C20: the coordinates of SimabmbEquiv are (a, (b - c)/2, -(b - c)/2)
C20_SimabmbCoordinates ==
    [][pc = "folded" /\ specialized'.specialization = "SimabmbEquiv" =>
         /\ specialized'.a = weyl.a
         /\ specialized'.b = RDiv(weyl.b - weyl.c, 2)
         /\ specialized'.c = -RDiv(weyl.b - weyl.c, 2)]_vars

(***************************************************************************)
(* The reorder of cs, d and the columns of P in new                        *)
(***************************************************************************)
Column(m, j) == <<m[1][j], m[2][j], m[3][j], m[4][j]>>
NegColumn(m, j) == <<CNeg(m[1][j]), CNeg(m[2][j]), CNeg(m[3][j]), CNeg(m[4][j])>>
\* matrix m with its last column taken from q
WithLastColumnOf(m, q) == [r \in 1..4 |-> <<m[r][1], m[r][2], m[r][3], q[r][4]>>]

\* C18: new applies one permutation, order, to cs, to d and to the columns of
\* P: entry i of each is what was at index order[i] before; d[3] stays, and
\* column 3 of P stays but for its negation when the determinant of the
\* reordered P is negative
C18_SameReorder ==
    [][pc = "diagonalized" /\ pc' = "folded" =>
         /\ weyl'.order \in Perms3
         /\ \A i \in 1..3 :
               /\ weyl'.cs[i] = CsOf(HalfArgs(loop.d))[weyl'.order[i]]
               /\ weyl'.d[i] = HalfArgs(loop.d)[weyl'.order[i]]
               /\ Column(weyl'.p, i) = Column(loop.p, weyl'.order[i])
         /\ weyl'.d[4] = HalfArgs(loop.d)[4]
         /\ Column(weyl'.p, 4) =
               IF ReFix(Determinant(WithLastColumnOf(weyl'.p, loop.p))) < 0
               THEN NegColumn(loop.p, 4) ELSE Column(loop.p, 4)]_vars
\* new moved columns of P and negated the last one
C18_ReorderedAndNegated ==
    /\ pc = "folded"
    /\ weyl.order # <<1, 2, 3>>
    /\ \E r \in 1..4 : weyl.p[r][4] = CNeg(C1)

(***************************************************************************)
(* The tie-break sort                                                      *)
(***************************************************************************)
\* the distance of an angle from the nearest multiple of pi/2
FromQuarterTurn(x) == Min(x % PI2, PI2 - (x % PI2))
\* index i comes before index j in the stable ascending order of cs by that distance
SortsBefore(cs, i, j) ==
    \/ FromQuarterTurn(cs[i]) < FromQuarterTurn(cs[j])
    \/ FromQuarterTurn(cs[i]) = FromQuarterTurn(cs[j]) /\ i < j

\* C17: with s the stable ascending argsort of cstemp, both paths reorder cs
\* to (cs[s[1]], cs[s[2]], cs[s[0]]): the smallest cstemp ends at position 2,
\* the middle one at position 0, the largest at position 1, and the reordered
\* triple is a permutation of the original one
C17_TieBreakSort ==
    \A r \in Paths :
        /\ r.order \in Perms3
        /\ \A i \in 1..3 : r.reordered[i] = r.unordered[r.order[i]]
        /\ SortsBefore(r.unordered, r.order[3], r.order[1])
        /\ SortsBefore(r.unordered, r.order[1], r.order[2])
        /\ FromQuarterTurn(r.reordered[3]) <= FromQuarterTurn(r.reordered[1])
        /\ FromQuarterTurn(r.reordered[1]) <= FromQuarterTurn(r.reordered[2])
\* both paths reordered three different phases of which two tie in cstemp
C17_TieReordered ==
    /\ coords.fast # {}
    /\ \E r \in coords.full :
          /\ Cardinality({r.unordered[1], r.unordered[2], r.unordered[3]}) = 3
          /\ FromQuarterTurn(r.unordered[1]) = FromQuarterTurn(r.unordered[3])
          /\ FromQuarterTurn(r.unordered[2]) < FromQuarterTurn(r.unordered[1])
          /\ r.reordered # r.unordered

(***************************************************************************)
(* The Euler bases of the specializations                                  *)
(***************************************************************************)
\* the basis convention of each specialization that moves Euler rotations
EulerBasisOf ==
    [ControlledEquiv |-> "XYX", MirrorControlledEquiv |-> "ZYZ", SimaabEquiv |-> "ZYZ",
     SimabbEquiv |-> "XYX", SimabmbEquiv |-> "XYX"]
\* the rotation about the outer axis of a basis: X for "XYX", Z for "ZYZ"
OuterRotation(basis, theta) == IF basis = "XYX" THEN rx_matrix(theta) ELSE rz_matrix(theta)
\* the local unitaries of a specialization when every rotation is taken about
\* an axis of its basis B: <<K1l, K1r, K2l, K2r>>
InBasis(w, family, B, k2l, k2r) ==
    CASE family \in {"ControlledEquiv", "MirrorControlledEquiv"} ->
           <<Dot2(w.K1l, OuterRotation(B, k2l[2])), Dot2(w.K1r, OuterRotation(B, k2r[2])),
             Dot2(ry_matrix(k2l[1]), OuterRotation(B, k2l[3])),
             Dot2(ry_matrix(k2r[1]), OuterRotation(B, k2r[3]))>>
      [] family \in {"SimaabEquiv", "SimabbEquiv"} ->
           <<Dot2(w.K1l, OuterRotation(B, k2l[2])), Dot2(w.K1r, OuterRotation(B, k2l[2])),
             Dot2(ry_matrix(k2l[1]), OuterRotation(B, k2l[3])),
             Dot2(OuterRotation(B, -k2l[2]), w.K2r)>>
      [] OTHER ->
           <<Dot2(w.K1l, OuterRotation(B, k2l[2])),
             Dot2(Dot2(Dot2(w.K1r, ipz), OuterRotation(B, k2l[2])), ipz),
             Dot2(ry_matrix(k2l[1]), OuterRotation(B, k2l[3])),
             Dot2(Dot2(Dot2(ipz, OuterRotation(B, -k2l[2])), ipz), w.K2r)>>

\* C21: a specialization that moves Euler rotations records its basis B as
\* default_euler_basis, extracts the angles in B, and builds every rotation from
\* them about an axis of B: the outer axis for phi and lambda, Y for theta
C21_EulerAxes ==
    [][Specializes /\ specialized'.specialization \in DOMAIN EulerBasisOf =>
         LET family == specialized'.specialization
             B == EulerBasisOf[family]
         IN /\ specialized'.default_euler_basis = B
            /\ <<specialized'.K1l, specialized'.K1r, specialized'.K2l, specialized'.K2r>>
                 = InBasis(weyl, family, B, angles_from_unitary(weyl.K2l, B),
                           angles_from_unitary(weyl.K2r, B))]_vars

(***************************************************************************)
(* The canonical block                                                     *)
(***************************************************************************)
\* the tolerance of the last circuit() call
AtolOf(call) == IF call.atol = NoAtol THEN DEFAULT_ATOL ELSE call.atol
\* |x| < atol; the default tolerance lies between 0 and one angle unit
BelowAtol(x, atol) == IF atol = DEFAULT_ATOL THEN x = 0 ELSE Abs(x) < atol
\* |x| <= atol
NotAboveAtol(x, atol) == Abs(x) <= atol
\* rxx(-2a), ryy(-2b), rzz(-2c) on qubits [0,1] without the omitted rotations
CanonicalBlock(obj, Omitted(_)) ==
    (IF Omitted(obj.a) THEN << >> ELSE << <<"rxx", <<-obj.a * 2>>, <<0, 1>> >> >>)
      \o (IF Omitted(obj.b) THEN << >> ELSE << <<"ryy", <<-obj.b * 2>>, <<0, 1>> >> >>)
      \o (IF Omitted(obj.c) THEN << >> ELSE << <<"rzz", <<-obj.c * 2>>, <<0, 1>> >> >>)

\* C22 as stated: outside SWAPEquiv and MirrorControlledEquiv the canonical
\* block is rxx(-2a), ryy(-2b), rzz(-2c) in that order on qubits [0,1], a
\* rotation being omitted exactly when simplify is set and the magnitude of its
\* coordinate is below atol
C22_OmittedBelow ==
    (calls > 0 /\ self.specialization \notin PhaseCorrected) =>
        LET Omitted(x) == last.simplify /\ BelowAtol(x, AtolOf(last))
        IN TwoQubitOps(sequence.gates) = CanonicalBlock(self, Omitted)
\* C22: the same with a rotation omitted exactly when simplify is set and the
\* magnitude of its coordinate is not above atol
C22_OmittedNotAbove ==
    (calls > 0 /\ self.specialization \notin PhaseCorrected) =>
        LET Omitted(x) == last.simplify /\ NotAboveAtol(x, AtolOf(last))
        IN TwoQubitOps(sequence.gates) = CanonicalBlock(self, Omitted)
\* a simplified block with one rotation kept and one, whose coordinate equals
\* the tolerance, omitted
C22_AtTolerance ==
    /\ calls > 0
    /\ self.specialization \notin PhaseCorrected
    /\ last.simplify
    /\ last.atol # NoAtol
    /\ Abs(self.a) > last.atol
    /\ Abs(self.b) = last.atol
    /\ Len(TwoQubitOps(sequence.gates)) = 1

(***************************************************************************)
(* Repeated circuit() calls                                                *)
(***************************************************************************)
\* C25: a circuit() call leaves the decomposition (global phase, coordinates,
\* local unitaries, specialization, fidelities) as it was, and a call with the
\* arguments of the call before it returns the same gates and the same global
\* phase
C25_Repeatable ==
    [][calls' = calls + 1 =>
         /\ self' = self
         /\ (calls > 0 /\ last' = last => sequence' = sequence)]_vars

(***************************************************************************)
(* The automatic selection and the fidelity check                          *)
(***************************************************************************)
\* the coordinates each test of the selection compares with (lines 541-558);
\* SWAPEquiv has two tests and is left out
TestedCoordinates(co) ==
    LET closest_abc == closest_partial_swap(co[1], co[2], co[3])
        closest_ab_minus_c == closest_partial_swap(co[1], co[2], -co[3])
    IN [IdEquiv |-> <<0, 0, 0>>,
        PartialSWAPEquiv |-> <<closest_abc, closest_abc, closest_abc>>,
        PartialSWAPFlipEquiv |-> <<closest_ab_minus_c, closest_ab_minus_c, closest_ab_minus_c>>,
        ControlledEquiv |-> <<co[1], 0, 0>>,
        MirrorControlledEquiv |-> <<PI4, PI4, co[3]>>,
        SimaabEquiv |-> <<RDiv(co[1] + co[2], 2), RDiv(co[1] + co[2], 2), co[3]>>,
        SimabbEquiv |-> <<co[1], RDiv(co[2] + co[3], 2), RDiv(co[2] + co[3], 2)>>,
        SimabmbEquiv |-> <<co[1], RDiv(co[2] - co[3], 2), RDiv(co[3] - co[2], 2)>>,
        General |-> co]

\* C26: when the specialization is selected automatically under a requested
\* fidelity f, the stored coordinates are the ones whose test passed, the
\* recomputed fidelity is at least f and the constructor does not fail; SWAPEquiv
\* included, with c > 0 and with c <= 0
C26_AutomaticNeverFails ==
    applied.fn = "new" =>
        /\ applied.specialization # "SWAPEquiv" =>
             applied.specialized = TestedCoordinates(applied.coordinates)[applied.specialization]
        /\ FLeq(applied.fidelity, applied.calculated_fidelity)
        /\ applied.ret = "Ok"

(***************************************************************************)
(* The factors of a product gate                                           *)
(***************************************************************************)
\* |z| >= 0.1, as |z|^2 >= 0.01
AtLeastTenth(z) == ReFix(Abs2(z)) >= 100

\* C23: for a scalar phase times a Kronecker product of two 2x2 unitaries, the
\* block used as the candidate for the right factor has a determinant of
\* magnitude at least 0.1, and the result is finite
C23_CandidateNotDegenerate ==
    applied.fn = "decompose_two_qubit_product_gate" =>
        AtLeastTenth(applied.det_r) /\ applied.finite
\* a product gate whose upper left block has a determinant below 0.1, not zero
C23_LowerBlockUsed ==
    /\ applied.fn = "decompose_two_qubit_product_gate"
    /\ applied.r # right_candidate_upper(applied.unitary)
    /\ det_one_qubit(right_candidate_upper(applied.unitary)) # C0

(***************************************************************************)
(* The matrix of a block of operations                                     *)
(***************************************************************************)
\* an operation embedded in two qubits by its qubit list
Embed(op) ==
    CASE op[2] = <<0>> -> Kron(Eye2, op[1])
      [] op[2] = <<1>> -> Kron(op[1], Eye2)
      [] op[2] = <<0, 1>> -> op[1]
      [] op[2] = <<1, 0>> -> change_basis(op[1])
      [] OTHER -> Eye4
\* Embed(op_list[n]) * ... * Embed(op_list[1])
RECURSIVE ProductOf(_, _)
ProductOf(op_list, n) ==
    IF n = 1 THEN Embed(op_list[1]) ELSE Dot4(Embed(op_list[n]), ProductOf(op_list, n - 1))

\* C24: for a non-empty op list blocks_to_matrix returns the product of the
\* embedded operations, the last one leftmost; so does the loop after each
\* operation, whatever the scratch buffer held from the operations before
C24_ProductOfEmbeddings ==
    /\ blocks.index >= 1 => blocks.matrix = ProductOf(blocks.op_list, blocks.index)
    /\ applied.fn = "blocks_to_matrix" =>
         applied.output = ProductOf(applied.op_list, Len(applied.op_list))
\* a returned block in which the scratch buffer was written for qubit 0 and then
\* for qubit 1
C24_ScratchReused ==
    /\ applied.fn = "blocks_to_matrix"
    /\ Len(applied.op_list) = 3
    /\ applied.op_list[2][2] = <<0>>
    /\ applied.op_list[3][2] = <<1>>

(***************************************************************************)
(* Indexing a gate sequence                                                *)
(***************************************************************************)
\* C27: __getitem__ with an integer idx on a sequence of length len returns
\* gates[idx] when 0 <= idx < len, gates[len + idx] when -len <= idx < 0, and an
\* index error for every other idx; it reads inside the vector only and leaves
\* the sequence as it was
C27_GetItem ==
    applied.fn = "__getitem__" =>
        LET len == Len(applied.gates)
            idx == applied.idx
        IN /\ (0 <= idx /\ idx < len) => applied.output = <<"Ok", applied.gates[idx + 1]>>
           /\ (-len <= idx /\ idx < 0) => applied.output = <<"Ok", applied.gates[len + idx + 1]>>
           /\ (idx >= len \/ idx < -len) => applied.output[1] = "PyIndexError"
           /\ applied.output[1] # "panic"
           /\ applied.gates_after = applied.gates
\* the first gate read with the index -len
C27_FromTheEnd ==
    /\ applied.fn = "__getitem__"
    /\ Len(applied.gates) = MaxGates
    /\ applied.idx = -MaxGates
    /\ applied.output = <<"Ok", applied.gates[1]>>

(***************************************************************************)
(* The local rotation helpers against the standard rotations               *)
(***************************************************************************)
IsUnitary2(M) == Dot2(M, Adjoint2(M)) = Eye2
LocalRx == applied.fn = "rotations" => applied.rx_matrix = applied.rx_gate /\ IsUnitary2(applied.rx_matrix)
StandardRz == applied.fn = "rotations" => applied.gates_rz_matrix = applied.rz_gate
\* C28: for every angle theta the local rx_matrix, ry_matrix and rz_matrix return
\* the matrices of rx_gate, ry_gate and rz_gate (and of rz_matrix of gates.rs):
\* each is unitary and is the identity at theta = 0
C28_LocalEqualsStandard ==
    applied.fn = "rotations" =>
        /\ applied.rx_matrix = applied.rx_gate
        /\ applied.ry_matrix = applied.ry_gate
        /\ applied.rz_matrix = applied.rz_gate
        /\ applied.rz_matrix = applied.gates_rz_matrix
        /\ \A M \in {applied.rx_matrix, applied.ry_matrix, applied.rz_matrix} :
              /\ IsUnitary2(M)
              /\ applied.theta = 0 => M = Eye2

(***************************************************************************)
(* The static gate matrices                                                *)
(***************************************************************************)
RECURSIVE RowDot(_, _, _)
\* sum over k <= n of a[k] * conj(b[k])
RowDot(a, b, n) == IF n = 0 THEN C0 ELSE CAdd(RowDot(a, b, n - 1), CMul(a[n], CConj(b[n])))
\* M * M^dagger = identity for a square matrix of any size
IsUnitary(M) ==
    \A i, j \in 1..Len(M) : RowDot(M[i], M[j], Len(M)) = IF i = j THEN C1 ELSE C0
\* the 2x2 block CYGATE applies to its target when the control is set
PauliYBlock ==
    LET CY == GATES.CYGATE IN << <<CY[2][2], CY[2][4]>>, <<CY[4][2], CY[4][4]>> >>
OtherTablesUnitary ==
    applied.fn = "gate_matrix" /\ applied.name # "YGATE" => IsUnitary(applied.matrix)
\* C29: every static gate matrix is unitary, and YGATE is the Pauli-Y block that
\* CYGATE applies to its target
C29_TablesUnitary ==
    applied.fn = "gate_matrix" =>
        /\ IsUnitary(applied.matrix)
        /\ applied.name = "YGATE" => applied.matrix = PauliYBlock

(***************************************************************************)
(* The cache of the standard-gate classes                                  *)
(***************************************************************************)
CacheCall == applied.fn \in {"populate_std_gate_map", "get_std_gate_class"}
\* the array a call found: an unset cell holds no class
ArrayBefore == IF applied.before.initialized THEN applied.before.array ELSE NoneArray
\* C30: across populate_std_gate_map and get_std_gate_class calls a filled slot
\* never changes (the first write wins); a get on an empty slot fills exactly
\* that slot with the class it imported and leaves every other slot as it was;
\* a get on a filled slot returns the cached object without importing
C30_FirstWriteWins ==
    CacheCall =>
        /\ \A g \in StandardGate : ArrayBefore[g] # None => gate_map.array[g] = ArrayBefore[g]
        /\ \A g \in StandardGate : g # applied.rs_gate => gate_map.array[g] = ArrayBefore[g]
        /\ (applied.fn = "get_std_gate_class" /\ ArrayBefore[applied.rs_gate] = None
              /\ applied.ret[1] = "Ok") =>
                /\ applied.imported
                /\ applied.ret[2] = ClassOf(applied.rs_gate)
                /\ gate_map.array[applied.rs_gate] = Some(applied.ret[2])
        /\ (applied.fn = "get_std_gate_class" /\ ArrayBefore[applied.rs_gate] # None) =>
                /\ ~applied.imported
                /\ applied.ret = <<"Ok", ArrayBefore[applied.rs_gate][2]>>
                /\ gate_map.array = ArrayBefore
\* a second registration for a gate, with another object, leaves the first
C30_SecondWriteIgnored ==
    /\ applied.fn = "populate_std_gate_map"
    /\ ArrayBefore[applied.rs_gate] # None
    /\ ArrayBefore[applied.rs_gate] # Some(applied.py_gate)
    /\ gate_map.array[applied.rs_gate] = ArrayBefore[applied.rs_gate]

=============================================================================
